---- MODULE Spec2Model ----
(***************************************************************************)
(* Verification model of telegram-mention-resender.                        *)
(*                                                                         *)
(* process_message (src/app.py) is modelled step by step: one action per   *)
(* stretch of code between two awaited external calls.  The external       *)
(* calls (match_prompt, client.send_message, message.forward_to) are       *)
(* recorded, in call order, in the history variable `calls`.               *)
(*                                                                         *)
(* Encodings.  A text or a word is a sequence of one-character strings.    *)
(* A Python Optional is a sequence of length 0 (None) or 1 (the value),    *)
(* except for entity names, where "" stands for both None and the empty    *)
(* string (the code only tests their truthiness), and for used_prompt,     *)
(* where 0 is None and k > 0 is the k-th entry of inst.prompts.            *)
(* A destination is named by the Instance field that holds it.  Of a       *)
(* prompt text and of the API key only their truthiness is kept.           *)
(***************************************************************************)
EXTENDS Integers, Sequences, FiniteSets, TLC

----------------------------------------------------------------------------
(* Bounds of the model *)

MaxWords == 2
MaxPrompts == 2
MaxMessages == 2
MaxHandlers == 2
MaxInstances == 2
MaxEdits == 1
MaxCalls == 2
MaxPasses == 2
MaxFailures == 1

(* Program constants *)

DefaultThreshold == 4
MinScore == 0
MaxScore == 5

\* telethon marks a channel id by a decimal prefix (-100...); the model
\* keeps the scheme with a mark sized for its peer ids
ChannelMark == 100

----------------------------------------------------------------------------
(* Values *)

Alphabet == {"a", "A", "b"}

SeqsUpTo(S, n) == UNION {[1..k -> S] : k \in 0..n}

\* message.raw_text: no text, one letter in either case, two letters
Texts == {<<>>, <<"a">>, <<"A">>, <<"b">>, <<"A", "b">>, <<"b", "a">>}

WordPool == {<<>>, <<"A">>, <<"a", "b">>}

Thresholds == {0, DefaultThreshold - 1, MaxScore}

\* EvaluateResult carries an unconstrained int: the Evaluator may answer
\* outside the scale
Scores == (MinScore - 1)..(MaxScore + 1)

\* a Prompt; `prompt` tells whether its text is non-empty
PromptWith(t, txt) == [threshold |-> t, prompt |-> txt]

PromptOf(t) == PromptWith(t, TRUE)

\* what client.chat.completions.parse can produce: a parsed EvaluateResult,
\* an exception (timeout, network, unparsable content), or a completion
\* whose message.parsed is None
\* completion.usage.total_tokens, 0 when the completion has no usage; the
\* completions without usage are drawn among those without a parsed message
Tokens == {0, 1}

EvaluatorOutcomes ==
    {[kind |-> "parsed", score |-> sc, tokens |-> 1] : sc \in Scores}
    \cup {[kind |-> "exception", score |-> 0, tokens |-> 0]}
    \cup {[kind |-> "missing", score |-> 0, tokens |-> tk] : tk \in Tokens}

\* the part of the configuration match_prompt reads
DefaultConfig == [openai_api_key |-> TRUE]

Configs == [openai_api_key : BOOLEAN]

Instance(w, nw, iw, tc, te, fpe, tpe, nfm, ps) ==
    [words |-> w, negative_words |-> nw, ignore_words |-> iw,
     target_chat |-> tc, target_entity |-> te,
     false_positive_entity |-> fpe, true_positive_entity |-> tpe,
     no_forward_message |-> nfm, prompts |-> ps]

----------------------------------------------------------------------------
(* telegram_utils: keyword matching *)

Lower(c) == IF c = "A" THEN "a" ELSE c

ToLower(s) == [k \in 1..Len(s) |-> Lower(s[k])]

Contains(sub, s) ==
    \E k \in 0..(Len(s) - Len(sub)) : SubSeq(s, k + 1, k + Len(sub)) = sub

\* a comparison that forgets to fold the case of the text
word_in_text_exact(words, text) ==
    \E k \in 1..Len(words) : Contains(ToLower(words[k]), text)

word_in_text(words, text) ==
    \E k \in 1..Len(words) : Contains(ToLower(words[k]), ToLower(text))

RECURSIVE FindWordFrom(_, _, _)
FindWordFrom(words, text, k) ==
    IF k > Len(words) THEN <<>>
    ELSE IF Contains(ToLower(words[k]), ToLower(text)) THEN <<words[k]>>
    ELSE FindWordFrom(words, text, k + 1)

find_word(words, text) == FindWordFrom(words, text, 1)

Truthy(opt) == opt # <<>> /\ opt[1] # <<>>

----------------------------------------------------------------------------
(* prompts.match_prompt: what the call does for one outcome of the         *)
(* Evaluator; `raised` tells that it ended by an exception, `tokens` is    *)
(* what it hands to stats.add_tokens                                       *)

match_prompt(p, cfg, ev) ==
    IF ~p.prompt \/ ~cfg.openai_api_key
    THEN [raised |-> FALSE, score |-> 0, tokens |-> 0]
    ELSE IF ev.kind = "exception"
    THEN [raised |-> FALSE, score |-> 0, tokens |-> 0]
    ELSE IF ev.kind = "missing"
    THEN [raised |-> TRUE, score |-> 0, tokens |-> ev.tokens]
    ELSE [raised |-> FALSE, score |-> ev.score, tokens |-> ev.tokens]

----------------------------------------------------------------------------
(* prompts: threshold test of process_message *)

EffectiveThreshold(p) == IF p.threshold = 0 THEN DefaultThreshold ELSE p.threshold

ReachesThreshold(sc, p) == sc >= EffectiveThreshold(p)

\* a tie replaces the tracked best
ImprovesOrTies(sc, best) == sc >= best

Improves(sc, best) == sc > best

----------------------------------------------------------------------------
(* stats: StatsTracker.data.  A scope is a Stats record; the data holds    *)
(* the global scope and the list of instance entries, each with its own    *)
(* scope and one scope per day (the {"stats": ...} wrapper of a day is     *)
(* left out).                                                              *)

EmptyStats == [total |-> 0, forwarded_total |-> 0,
               forwarded_words |-> 0, forwarded_prompt |-> 0, tokens |-> 0]

\* a dict without keys
EmptyDict == [x \in {} |-> 0]

EmptyTracker == [stats |-> EmptyStats, instances |-> <<>>]

\* lines 115-121 with the nesting of the flags lost: a word or prompt
\* flag counts even without forwarded
StatsIncrementFlat(s, fwd, by_word, by_prompt) ==
    [s EXCEPT
        !.total = @ + 1,
        !.forwarded_total = @ + (IF fwd THEN 1 ELSE 0),
        !.forwarded_words = @ + (IF by_word THEN 1 ELSE 0),
        !.forwarded_prompt = @ + (IF by_prompt THEN 1 ELSE 0)]

\* lines 115-121: the body of the loop over the scopes
StatsIncrement(s, fwd, by_word, by_prompt) ==
    [s EXCEPT
        !.total = @ + 1,
        !.forwarded_total = @ + (IF fwd THEN 1 ELSE 0),
        !.forwarded_words = @ + (IF fwd /\ by_word THEN 1 ELSE 0),
        !.forwarded_prompt = @ + (IF fwd /\ by_prompt THEN 1 ELSE 0)]

\* position of the first entry called `name`, 0 when there is none
RECURSIVE InstIndexFrom(_, _, _)
InstIndexFrom(insts, name, k) ==
    IF k > Len(insts) THEN 0
    ELSE IF insts[k].name = name THEN k
    ELSE InstIndexFrom(insts, name, k + 1)

\* get_inst with an entry that does not survive being found again
get_inst_fresh(data, name) ==
    LET k == InstIndexFrom(data.instances, name, 1)
        fresh == [name |-> name, stats |-> EmptyStats, days |-> EmptyDict,
                  tokens |-> 0]
    IN  IF k # 0 THEN [data EXCEPT !.instances[k] = fresh]
        ELSE [data EXCEPT !.instances = Append(@, fresh)]

\* _get_inst: the data with an entry for `name`, appended when missing
get_inst(data, name) ==
    IF InstIndexFrom(data.instances, name, 1) # 0 THEN data
    ELSE [data EXCEPT !.instances =
            Append(@, [name |-> name, stats |-> EmptyStats,
                       days |-> EmptyDict, tokens |-> 0])]

\* increment without the update of the day's scope (lines 119-121)
increment_without_day(data, name, day, fwd, by_word, by_prompt) ==
    LET d == get_inst(data, name)
        k == InstIndexFrom(d.instances, name, 1)
        i == d.instances[k]
        days == IF day \in DOMAIN i.days THEN i.days
                ELSE i.days @@ (day :> EmptyStats)
    IN  [stats |-> StatsIncrement(d.stats, fwd, by_word, by_prompt),
         instances |-> [d.instances EXCEPT ![k] =
            [i EXCEPT
                !.stats = StatsIncrement(@, fwd, by_word, by_prompt),
                !.days = days]]]

\* StatsTracker.increment, lines 111-121
increment(data, name, day, fwd, by_word, by_prompt) ==
    LET d == get_inst(data, name)
        k == InstIndexFrom(d.instances, name, 1)
        i == d.instances[k]
        days == IF day \in DOMAIN i.days THEN i.days
                ELSE i.days @@ (day :> EmptyStats)
    IN  [stats |-> StatsIncrement(d.stats, fwd, by_word, by_prompt),
         instances |-> [d.instances EXCEPT ![k] =
            [i EXCEPT
                !.stats = StatsIncrement(@, fwd, by_word, by_prompt),
                !.days = [days EXCEPT ![day] =
                            StatsIncrement(@, fwd, by_word, by_prompt)]]]]

\* add_tokens storing the amount of the call in place of the sum
add_tokens_overwrite(data, name, tokens) ==
    IF tokens <= 0 THEN data
    ELSE LET d == get_inst(data, name)
             k == InstIndexFrom(d.instances, name, 1)
         IN  [stats |-> [d.stats EXCEPT !.tokens = tokens],
              instances |-> [d.instances EXCEPT
                  ![k].stats.tokens = tokens,
                  ![k].tokens = tokens]]

\* StatsTracker.add_tokens, lines 127-132
add_tokens(data, name, tokens) ==
    IF tokens <= 0 THEN data
    ELSE LET d == get_inst(data, name)
             k == InstIndexFrom(d.instances, name, 1)
         IN  [stats |-> [d.stats EXCEPT !.tokens = @ + tokens],
              instances |-> [d.instances EXCEPT
                  ![k].stats.tokens = @ + tokens,
                  ![k].tokens = @ + tokens]]

\* what json.dump(self.data) leaves in the stats file
StatsFile(data) == [format |-> "new", value |-> data]

\* a mutation that leaves the flag as a flush left it
AfterMutationClean(data, due, file) ==
    IF due THEN [dirty |-> FALSE, file |-> <<StatsFile(data)>>, due |-> FALSE]
    ELSE [dirty |-> FALSE, file |-> file, due |-> due]

\* lines 122-124 and 133-135: dirty is set, and the data is flushed at once
\* when flush_interval has elapsed since the last flush
AfterMutation(data, due, file) ==
    IF due THEN [dirty |-> FALSE, file |-> <<StatsFile(data)>>, due |-> FALSE]
    ELSE [dirty |-> TRUE, file |-> file, due |-> due]

\* the record kept of one increment call
IncrementCall(name, day, fwd, by_word, by_prompt) ==
    [name |-> name, day |-> day, forwarded |-> fwd, used_word |-> by_word,
     used_prompt |-> by_prompt]

InstanceNames == <<"a", "b", "c", "d">>

InstanceName(k) == InstanceNames[k]

Days == {"d1", "d2"}

\* dict.get(key, default)
Get(d, key, default) == IF key \in DOMAIN d THEN d[key] ELSE default

\* Stats(total=t, tokens=k).to_dict()
StatsOf(t, k) == [EmptyStats EXCEPT !.total = t, !.tokens = k]

\* lines 50-71 alone, without the test for the "stats" key
convert_always(data) ==
    [stats |-> StatsOf(Get(data, "total", 0), Get(data, "tokens", 0)),
     instances |->
        LET insts == Get(data, "instances", <<>>) IN
        [k \in 1..Len(insts) |->
            LET i == insts[k]
                days == Get(i, "days", EmptyDict)
            IN
            [name |-> Get(i, "name", ""),
             stats |-> StatsOf(Get(i, "total", 0), Get(i, "tokens", 0)),
             days |-> [d \in DOMAIN days |->
                        IF "bare" \in DOMAIN days[d]
                        THEN StatsOf(days[d].bare, 0)
                        ELSE days[d]],
             tokens |-> Get(i, "tokens", 0)]]]

\* convert: data of the old format held a total and a token count per
\* scope and, per day, a bare total ([bare |-> n]) or an entry that is
\* nested already; a nested day is the record of its stats
convert(data) ==
    IF "stats" \in DOMAIN data THEN data ELSE convert_always(data)

\* StatsTracker.__init__, lines 84-92: what a tracker constructed on `file`
\* holds; a file is absent (<<>>), unreadable, of the old format (no
\* "stats" key) or of the new one
LoadStats(file) ==
    IF Len(file) = 0 THEN EmptyTracker
    ELSE IF file[1].format = "corrupt" THEN EmptyTracker
    ELSE IF "stats" \notin DOMAIN file[1].value THEN convert(file[1].value)
    ELSE file[1].value

OldStatsFile ==
    [format |-> "old",
     value |-> [total |-> 2, tokens |-> 1,
                instances |-> <<[name |-> "a", total |-> 2, tokens |-> 1,
                                 days |-> ("d1" :> [bare |-> 2])]>>]]

CorruptStatsFile == [format |-> "corrupt", value |-> EmptyTracker]

----------------------------------------------------------------------------
(* trace_ids: TraceStore.  A chat or message id is an int or a str; the    *)
(* data is a dict of dicts keyed by str(id); the absent trace id (None) is *)
(* "".                                                                     *)

Ids == {[t |-> "int", v |-> 1], [t |-> "str", v |-> 1], [t |-> "int", v |-> 2]}

MessageIds == {[t |-> "int", v |-> 1]}

TraceIds == {"t1", "t2"}

\* str(id)
Str(id) == [t |-> "str", v |-> id.v]

\* the key "0" of the backward compatibility branch
Key0 == [t |-> "str", v |-> 0]

\* the first trace id of a pair is kept
trace_set_first(data, chat_id, message_id, trace_id) ==
    IF trace_id = "" THEN data
    ELSE LET c == Str(chat_id)
             m == Str(message_id)
             chat == IF c \in DOMAIN data THEN data[c] ELSE EmptyDict
         IN  [k \in DOMAIN data \cup {c} |->
                IF k # c THEN data[k]
                ELSE [j \in DOMAIN chat \cup {m} |->
                        IF j \in DOMAIN chat THEN chat[j] ELSE trace_id]]

\* TraceStore.set, lines 36-39
trace_set(data, chat_id, message_id, trace_id) ==
    IF trace_id = "" THEN data
    ELSE LET c == Str(chat_id)
             m == Str(message_id)
             chat == IF c \in DOMAIN data THEN data[c] ELSE EmptyDict
         IN  [k \in DOMAIN data \cup {c} |->
                IF k # c THEN data[k]
                ELSE [j \in DOMAIN chat \cup {m} |->
                        IF j = m THEN trace_id ELSE chat[j]]]

\* TraceStore.get
trace_get(data, chat_id, message_id) ==
    LET c == Str(chat_id)
        m == Str(message_id)
    IN  IF c \in DOMAIN data /\ m \in DOMAIN data[c] THEN data[c][m] ELSE ""

\* json.dump of a dict: every key is written as a string
JsonKeys(d) ==
    [k \in {Str(x) : x \in DOMAIN d} |->
        d[CHOOSE x \in DOMAIN d : Str(x) = k]]

\* what json.dump(self.data) leaves in the trace id file
TraceFile(data) ==
    [format |-> "nested",
     value |-> [c \in DOMAIN JsonKeys(data) |-> JsonKeys(JsonKeys(data)[c])]]

\* every file that holds something is taken for the old format
LoadTracesFlat(file) ==
    IF Len(file) = 0 THEN EmptyDict
    ELSE IF file[1].format = "corrupt" THEN EmptyDict
    ELSE IF DOMAIN file[1].value # {} THEN Key0 :> file[1].value
    ELSE file[1].value

\* TraceStore.__init__, lines 19-31: a file is absent, unreadable, flat
\* (old format: every value is a str) or nested
LoadTraces(file) ==
    IF Len(file) = 0 THEN EmptyDict
    ELSE IF file[1].format = "corrupt" THEN EmptyDict
    ELSE IF DOMAIN file[1].value # {} /\ file[1].format = "flat"
    THEN Key0 :> file[1].value
    ELSE file[1].value

FlatTraceFile ==
    [format |-> "flat", value |-> ([t |-> "str", v |-> 1] :> "t1")]

CorruptTraceFile == [format |-> "corrupt", value |-> EmptyDict]

----------------------------------------------------------------------------
VARIABLES
    instances,       \* app.instances
    config,          \* prompts.config
    stats,           \* app.stats: StatsTracker.data
    dirty,           \* StatsTracker.dirty
    today,           \* what current_day() returns
    stats_file,      \* the stats file: no file, or what was written
    flush_due,       \* flush_interval has elapsed since StatsTracker.last_flush
    stats0,          \* the data the StatsTracker was constructed with
    st_calls,        \* the increment calls made so far, in order
    traces0,         \* the data the TraceStore was constructed with
    trace_calls,     \* the set calls made so far, in order
    app_config,      \* app.config: the sender block lists of the handler
    events,          \* the NewMessage handler tasks, in order of arrival
    hcalls,          \* the calls the handler tasks made, in order
    traces,          \* TraceStore.data
    trace_dirty,     \* TraceStore.dirty
    trace_file,      \* the trace id file: no file, or what was written
    trace_due,       \* flush_interval has elapsed since TraceStore.last_flush
    next_msg,        \* number of messages delivered so far
    error_log,       \* number of "Failed to forward message" log records
    pc,              \* position of the running process_message
    outcome,         \* how the last process_message returned
    inst,            \* process_message: index of inst in instances
    text,            \* process_message: message.raw_text
    forward,         \* process_message locals, by their names
    used_word,
    used_prompt,
    used_score,
    used_quote,
    used_reasoning,
    p_idx,           \* position of the loop over inst.prompts
    destinations,
    d_idx,           \* position of the loop over destinations
    calls,           \* external calls of the current message, in order
    forwarded_positive,  \* app.forwarded_positive
    forwarded_negative,  \* app.forwarded_negative
    hr,              \* the invocations of handle_reaction, in arrival order
    fb_calls,        \* forward_to calls made by handle_reaction, in order
    config_file,     \* the configuration file: what load_config would read
    folder_peers,    \* Telegram: the include_peers of each dialog folder
    notify,          \* Telegram: mute_until of each peer's notify settings
    mute_log,        \* the requests the mute passes made, in order
    safe_names,      \* the get_safe_name calls made, in order
    entity_cache,    \* telegram_utils.entity_cache
    main_i,          \* main: position of its loop over instances
    rs,              \* per instance: the running update_instance_chat_ids
                     \* and rescan_loop
    edits            \* number of changes made to the configuration file

pmvars == <<pc, outcome, inst, text, forward, used_word, used_prompt,
            used_score, used_quote, used_reasoning, p_idx, destinations,
            d_idx, calls>>

hrvars == <<forwarded_positive, forwarded_negative, hr, fb_calls>>

muvars == <<notify, mute_log>>

rfvars == <<config_file, folder_peers, entity_cache, main_i, rs, edits,
            muvars, safe_names>>

stvars == <<today, stats0, traces, trace_dirty, trace_file, trace_due,
            traces0, trace_calls>>

hdvars == <<app_config, events, hcalls>>

vars == <<instances, config, stats, dirty, stats_file, flush_due, st_calls, stvars, hdvars, next_msg, error_log,
          pmvars, hrvars, rfvars>>

----------------------------------------------------------------------------
(* Instance sets the specifications start from *)

FilterLists == SeqsUpTo(WordPool, 1)

WordInstances ==
    {Instance(w, nw, iw, <<1>>, "", "", "", FALSE, ps) :
        w \in SeqsUpTo(WordPool, MaxWords), nw \in FilterLists,
        iw \in FilterLists,
        ps \in SeqsUpTo({PromptOf(DefaultThreshold)}, 1)}

PromptInstances ==
    {Instance(<<>>, <<>>, <<>>, <<1>>, "", "", "", FALSE, ps) :
        ps \in SeqsUpTo({PromptOf(t) : t \in Thresholds}, MaxPrompts)}

DestInstances ==
    {Instance(<<<<"A">>>>, <<>>, <<>>, tc, te, "", "", nfm, <<>>) :
        tc \in {<<>>, <<1>>}, te \in {"", "name"}, nfm \in BOOLEAN}

MatchInstances == WordInstances \cup PromptInstances \cup DestInstances

\* prompts with and without text, for configurations with and without key
EvalInstances ==
    {Instance(<<>>, <<>>, <<>>, <<1>>, "", "", "", FALSE, ps) :
        ps \in SeqsUpTo({PromptWith(DefaultThreshold, txt) : txt \in BOOLEAN},
                        MaxPrompts)}

PMInit ==
    /\ pc = "idle"
    /\ outcome = "none"
    /\ inst = 0
    /\ text = <<>>
    /\ forward = FALSE
    /\ used_word = <<>>
    /\ used_prompt = 0
    /\ used_score = 0
    /\ used_quote = 0
    /\ used_reasoning = 0
    /\ p_idx = 0
    /\ destinations = <<>>
    /\ d_idx = 0
    /\ calls = <<>>

Handlers == 1..MaxHandlers

NewHandler == [pc |-> "new", emojis |-> {}, peer |-> 0, msg_id |-> 0,
               i |-> 0, result |-> "none"]

HRInit ==
    /\ forwarded_positive = {}
    /\ forwarded_negative = {}
    /\ hr = [h \in Handlers |-> NewHandler]
    /\ fb_calls = <<>>

\* nobody is blocked, no update has been dispatched to the handler
NoIgnore == [ignore_user_ids |-> {}, ignore_usernames |-> <<>>]

HDInit ==
    /\ app_config = NoIgnore
    /\ events = <<>>
    /\ hcalls = <<>>

\* no startup and no rescan in progress
RFIdle ==
    /\ config_file = [openai_api_key |-> TRUE, instances |-> <<>>]
    /\ folder_peers = [f \in {} |-> {}]
    /\ entity_cache = {}
    /\ main_i = 1
    /\ rs = <<>>
    /\ edits = 0
    /\ notify = [p \in {} |-> 0]
    /\ mute_log = <<>>
    /\ safe_names = <<>>

\* both stores constructed without file, nothing called on them yet; the
\* run stays within one day and one flush interval
STInit ==
    /\ stats = EmptyTracker
    /\ dirty = FALSE
    /\ today = "d1"
    /\ stats_file = <<>>
    /\ flush_due = FALSE
    /\ trace_due = FALSE
    /\ stats0 = EmptyTracker
    /\ st_calls = <<>>
    /\ traces = EmptyDict
    /\ trace_dirty = FALSE
    /\ trace_file = <<>>
    /\ traces0 = EmptyDict
    /\ trace_calls = <<>>

InitMatch ==
    /\ RFIdle
    /\ \/ /\ instances \in {<<x>> : x \in MatchInstances}
          /\ config = DefaultConfig
       \/ /\ instances \in {<<x>> : x \in EvalInstances}
          /\ config \in Configs
    /\ STInit
    /\ next_msg = 0
    /\ error_log = 0
    /\ PMInit
    /\ HRInit
    /\ HDInit

----------------------------------------------------------------------------
(* process_message *)

Inst == instances[inst]

\* the message is counted on entry, before the two filters are applied
CountBeforeFilters(data, name, day, dropped) ==
    increment(data, name, day, FALSE, FALSE, FALSE)

\* lines 89-103: stats.increment(inst.name), without flags, is reached only
\* by a message neither filter returned on
CountAfterFilters(data, name, day, dropped) ==
    IF dropped THEN data
    ELSE increment(data, name, day, FALSE, FALSE, FALSE)

\* the text is tested whether or not there is one
HasTextAlways(t) == TRUE

\* line 112: if message.raw_text
HasText(t) == t # <<>>

\* lines 88-103: the two drop filters, then stats.increment(inst.name)
PMStart ==
    /\ pc = "idle"
    /\ next_msg < MaxMessages
    /\ \E k \in 1..Len(instances), t \in Texts :
        /\ inst' = k
        /\ text' = t
        /\ next_msg' = next_msg + 1
        /\ forward' = FALSE
        /\ used_word' = <<>>
        /\ used_prompt' = 0
        /\ used_score' = 0
        /\ used_quote' = 0
        /\ used_reasoning' = 0
        /\ p_idx' = 0
        /\ destinations' = <<>>
        /\ d_idx' = 0
        /\ calls' = <<>>
        /\ IF t # <<>> /\ word_in_text(instances[k].ignore_words, t)
           THEN /\ outcome' = "ignore_words"
                /\ pc' = "idle"
           ELSE IF t # <<>> /\ word_in_text(instances[k].negative_words, t)
           THEN /\ outcome' = "negative_words"
                /\ pc' = "idle"
           ELSE /\ outcome' = "none"
                /\ pc' = "words"
        /\ LET dropped ==
                /\ t # <<>>
                /\ \/ word_in_text(instances[k].ignore_words, t)
                   \/ word_in_text(instances[k].negative_words, t)
           IN  /\ stats' = CountAfterFilters(stats, InstanceName(k), today,
                                             dropped)
               /\ IF stats' = stats
                  THEN UNCHANGED <<dirty, stats_file, flush_due, st_calls>>
                  ELSE LET a == AfterMutation(stats', flush_due, stats_file)
                       IN  /\ dirty' = a.dirty
                           /\ stats_file' = a.file
                           /\ flush_due' = a.due
                           /\ st_calls' = Append(st_calls,
                                 IncrementCall(InstanceName(k), today,
                                               FALSE, FALSE, FALSE))
    /\ UNCHANGED <<rfvars, stvars, hdvars, instances, config, error_log,
                   hrvars>>

\* lines 104-117 and 129, 163: chat name, keyword match, start of the scan
PMWords ==
    /\ pc = "words"
    /\ LET w == find_word(Inst.words, text) IN
        IF HasText(text) /\ Truthy(w)
        THEN /\ forward' = TRUE
             /\ used_word' = w
             /\ pc' = "prepare"
             /\ UNCHANGED <<p_idx, outcome>>
        ELSE IF HasText(text) /\ Len(Inst.prompts) > 0
        THEN /\ p_idx' = 1
             /\ pc' = "scan"
             /\ UNCHANGED <<forward, used_word, outcome>>
        ELSE /\ pc' = "idle"
             /\ outcome' = "not_forwarded"
             /\ UNCHANGED <<forward, used_word, p_idx>>
    /\ UNCHANGED <<rfvars, hrvars, instances, config, stats, dirty, stats_file, flush_due, st_calls, stvars, hdvars, next_msg,
                   error_log, inst, text,
                   used_prompt, used_score, used_quote, used_reasoning,
                   destinations, d_idx, calls>>

\* lines 118-128: one iteration of the loop over inst.prompts.  Quote and
\* reasoning are those of this evaluation, named by the position of the
\* prompt that produced them.  An exception of match_prompt leaves
\* process_message, which has no handler around the loop.
PMEvalPrompt ==
    /\ pc = "scan"
    /\ \E ev \in EvaluatorOutcomes :
        LET p == Inst.prompts[p_idx]
            r == match_prompt(p, config, ev)
            sc == r.score
        IN
        /\ stats' = add_tokens(stats, InstanceName(inst), r.tokens)
        /\ IF r.tokens <= 0 THEN UNCHANGED <<dirty, stats_file, flush_due>>
           ELSE LET a == AfterMutation(stats', flush_due, stats_file)
                IN  /\ dirty' = a.dirty
                    /\ stats_file' = a.file
                    /\ flush_due' = a.due
        /\ IF r.raised
           THEN /\ calls' = Append(calls, [op |-> "match_prompt_raised",
                                           arg |-> p_idx, res |-> FALSE])
                /\ pc' = "idle"
                /\ outcome' = "raised"
                /\ UNCHANGED <<used_score, used_prompt, used_quote,
                               used_reasoning, p_idx, forward>>
           ELSE
           /\ calls' = Append(calls, [op |-> "match_prompt", arg |-> p_idx,
                                      res |-> sc])
           /\ IF Improves(sc, used_score)
              THEN /\ used_score' = sc
                   /\ used_prompt' = p_idx
                   /\ used_quote' = p_idx
                   /\ used_reasoning' = p_idx
              ELSE UNCHANGED <<used_score, used_prompt, used_quote,
                               used_reasoning>>
           /\ IF ReachesThreshold(sc, p)
              THEN /\ forward' = TRUE
                   /\ pc' = "prepare"
                   /\ UNCHANGED <<p_idx, outcome>>
              ELSE IF p_idx < Len(Inst.prompts)
              THEN /\ p_idx' = p_idx + 1
                   /\ UNCHANGED <<pc, forward, outcome>>
              ELSE /\ pc' = "idle"
                   /\ outcome' = "not_forwarded"
                   /\ UNCHANGED <<p_idx, forward>>
    /\ UNCHANGED <<rfvars, hrvars, instances, config, st_calls, stvars, hdvars,
                   next_msg, error_log, inst, text,
                   used_word, destinations, d_idx>>

\* target_entity appended before target_chat
DestinationsEntityFirst(i) ==
    (IF i.target_entity # "" THEN <<"target_entity">> ELSE <<>>)
    \o (IF i.target_chat # <<>> THEN <<"target_chat">> ELSE <<>>)

\* lines 140-147: target_chat first, then target_entity
Destinations(i) ==
    (IF i.target_chat # <<>> THEN <<"target_chat">> ELSE <<>>)
    \o (IF i.target_entity # "" THEN <<"target_entity">> ELSE <<>>)

\* lines 129-148: annotation text, destination list, entry of the loop
PMPrepare ==
    /\ pc = "prepare"
    /\ destinations' = Destinations(Inst)
    /\ IF Len(Destinations(Inst)) = 0
       THEN /\ pc' = "idle"
            /\ outcome' = "forwarded"
            /\ d_idx' = d_idx
       ELSE /\ d_idx' = 1
            /\ pc' = IF Inst.no_forward_message THEN "forward" ELSE "send"
            /\ outcome' = outcome
    /\ UNCHANGED <<rfvars, hrvars, instances, config, stats, dirty, stats_file, flush_due, st_calls, stvars, hdvars, next_msg,
                   error_log, inst, text,
                   forward, used_word, used_prompt, used_score, used_quote,
                   used_reasoning, p_idx, calls>>

\* line 150, and lines 161-162 when the call raises
PMSend ==
    /\ pc = "send"
    /\ \E ok \in BOOLEAN :
        /\ calls' = Append(calls, [op |-> "send_message",
                                   arg |-> destinations[d_idx], res |-> ok])
        /\ IF ok
           THEN /\ pc' = "forward"
                /\ UNCHANGED <<outcome, error_log>>
           ELSE /\ pc' = "idle"
                /\ outcome' = "failed"
                /\ error_log' = error_log + 1
    /\ UNCHANGED <<rfvars, hrvars, instances, config, stats, dirty, stats_file, flush_due, st_calls, stvars, hdvars, next_msg, inst,
                   text, forward,
                   used_word, used_prompt, used_score, used_quote,
                   used_reasoning, p_idx, destinations, d_idx>>

\* a forward that raised is caught inside the loop and attempted again
PMForwardRetry ==
    /\ pc = "forward"
    /\ \E ok \in BOOLEAN :
        /\ calls' = Append(calls, [op |-> "forward_to",
                                   arg |-> destinations[d_idx], res |-> ok])
        /\ IF ~ok
           THEN UNCHANGED <<pc, outcome, error_log, d_idx>>
           ELSE IF d_idx < Len(destinations)
           THEN /\ d_idx' = d_idx + 1
                /\ pc' = IF Inst.no_forward_message THEN "forward" ELSE "send"
                /\ UNCHANGED <<outcome, error_log>>
           ELSE /\ pc' = "idle"
                /\ outcome' = "forwarded"
                /\ UNCHANGED <<d_idx, error_log>>
    /\ UNCHANGED <<rfvars, hrvars, instances, config, stats, dirty, stats_file, flush_due, st_calls, stvars, hdvars, next_msg, inst,
                   text, forward,
                   used_word, used_prompt, used_score, used_quote,
                   used_reasoning, p_idx, destinations>>

\* lines 151-160, and lines 161-162 when the call raises
PMForward ==
    /\ pc = "forward"
    /\ \E ok \in BOOLEAN :
        /\ calls' = Append(calls, [op |-> "forward_to",
                                   arg |-> destinations[d_idx], res |-> ok])
        /\ IF ~ok
           THEN /\ pc' = "idle"
                /\ outcome' = "failed"
                /\ error_log' = error_log + 1
                /\ d_idx' = d_idx
           ELSE IF d_idx < Len(destinations)
           THEN /\ d_idx' = d_idx + 1
                /\ pc' = IF Inst.no_forward_message THEN "forward" ELSE "send"
                /\ UNCHANGED <<outcome, error_log>>
           ELSE /\ pc' = "idle"
                /\ outcome' = "forwarded"
                /\ UNCHANGED <<d_idx, error_log>>
    /\ UNCHANGED <<rfvars, hrvars, instances, config, stats, dirty, stats_file, flush_due, st_calls, stvars, hdvars, next_msg, inst,
                   text, forward,
                   used_word, used_prompt, used_score, used_quote,
                   used_reasoning, p_idx, destinations>>

NextMatch ==
    \/ PMStart
    \/ PMWords
    \/ PMEvalPrompt
    \/ PMPrepare
    \/ PMSend
    \/ PMForward

SpecMatch == InitMatch /\ [][NextMatch]_vars

----------------------------------------------------------------------------
(* handle_reaction *)

POSITIVE_REACTIONS == {"thumbs_up"}

NEGATIVE_REACTIONS == {"thumbs_down"}

EmojiLists == {{"thumbs_up"}, {"thumbs_down"}, {"thumbs_up", "thumbs_down"},
               {"heart"}}

Chats == {1, 2}

MsgIds == {1}

\* The chat a target entity name resolves to (client.get_entity followed by
\* to_event_chat_id); chats and peers are named by their event chat id.
EntityChat(e) == IF e = "e1" THEN 1 ELSE 2

\* targets of chat 1 with no, one or both feedback destinations, an instance
\* without target_entity, and a target of chat 2
ReactInstances ==
    {Instance(<<>>, <<>>, <<>>, <<>>, "e1", "", "", FALSE, <<>>),
     Instance(<<>>, <<>>, <<>>, <<>>, "e1", "", "tp", FALSE, <<>>),
     Instance(<<>>, <<>>, <<>>, <<>>, "e1", "fp", "tp", FALSE, <<>>),
     Instance(<<>>, <<>>, <<>>, <<1>>, "", "fp", "tp", FALSE, <<>>),
     Instance(<<>>, <<>>, <<>>, <<>>, "e2", "fp2", "tp2", FALSE, <<>>)}

InitReact ==
    /\ RFIdle
    /\ instances \in SeqsUpTo(ReactInstances, MaxInstances)
    /\ config = DefaultConfig
    /\ STInit
    /\ next_msg = 0
    /\ error_log = 0
    /\ PMInit
    /\ HRInit
    /\ HDInit

\* any emoji counts as a positive reaction
IsPositiveAny(emojis) == emojis # {}

IsPositive(emojis) == emojis \cap POSITIVE_REACTIONS # {}

IsNegative(emojis) == emojis \cap NEGATIVE_REACTIONS # {}

\* each polarity looked up in the other polarity's set
AlreadyForwardedSwapped(positive, negative, key, fpos, fneg) ==
    \/ positive /\ key \in fneg
    \/ negative /\ key \in fpos

\* lines 192-197
AlreadyForwarded(positive, negative, key, fpos, fneg) ==
    \/ positive /\ key \in fpos
    \/ negative /\ key \in fneg

\* lines 199-201: the next instance, from position k on, with a target_entity
RECURSIVE NextTarget(_, _)
NextTarget(insts, k) ==
    IF k > Len(insts) THEN 0
    ELSE IF insts[k].target_entity # "" THEN k
    ELSE NextTarget(insts, k + 1)

\* lines 207-211: the Instance field that holds the feedback destination
DestField(positive, negative) ==
    IF positive THEN "true_positive_entity"
    ELSE IF negative THEN "false_positive_entity"
    ELSE "none"

\* the destinations of the two polarities exchanged
DestOfSwapped(i, positive, negative) ==
    IF positive THEN i.false_positive_entity
    ELSE IF negative THEN i.true_positive_entity
    ELSE ""

DestOf(i, positive, negative) ==
    IF positive THEN i.true_positive_entity
    ELSE IF negative THEN i.false_positive_entity
    ELSE ""

Key(h) == <<hr[h].peer, hr[h].msg_id>>

Running(h) == hr[h].pc \notin {"new", "done"}

Return(h, res) == [hr EXCEPT ![h].pc = "done", ![h].result = res]

\* after `continue`: on to the next instance with a target_entity, or
\* out of the loop
Continue(h) ==
    LET n == NextTarget(instances, hr[h].i + 1) IN
    IF n = 0 THEN Return(h, "no_forward")
    ELSE [hr EXCEPT ![h].i = n]

\* lines 175-201: up to the first awaited network call
HRBegin(h, emojis, peer, msg_id) ==
    /\ hr[h].pc = "new"
    /\ \A g \in 1..(h - 1) : hr[g].pc # "new"
    /\ LET upd == [hr[h] EXCEPT !.emojis = emojis, !.peer = peer,
                                !.msg_id = msg_id]
           n == NextTarget(instances, 1)
       IN
       hr' = [hr EXCEPT ![h] =
                IF ~(IsPositive(emojis) \/ IsNegative(emojis))
                THEN [upd EXCEPT !.pc = "done", !.result = "ignored"]
                ELSE IF AlreadyForwarded(IsPositive(emojis), IsNegative(emojis),
                                         <<peer, msg_id>>, forwarded_positive,
                                         forwarded_negative)
                THEN [upd EXCEPT !.pc = "done", !.result = "skipped"]
                ELSE IF n = 0
                THEN [upd EXCEPT !.pc = "done", !.result = "no_forward"]
                ELSE [upd EXCEPT !.pc = "entity", !.i = n]]
    /\ UNCHANGED <<rfvars, instances, config, stats, dirty, stats_file, flush_due, st_calls, stvars, hdvars, next_msg, error_log,
                   pmvars,
                   forwarded_positive, forwarded_negative, fb_calls>>

HRStart(h) ==
    \E emojis \in EmojiLists, peer \in Chats, msg_id \in MsgIds :
        HRBegin(h, emojis, peer, msg_id)

\* the calls run to completion one after the other
HRStartSeq(h) ==
    /\ \A g \in Handlers : ~Running(g)
    /\ HRStart(h)

\* lines 202-213: entity lookup, then the tests on the target and on the
\* feedback destination
HREntity(h) ==
    /\ hr[h].pc = "entity"
    /\ \E ok \in BOOLEAN :
        LET i == instances[hr[h].i]
            positive == IsPositive(hr[h].emojis)
            negative == IsNegative(hr[h].emojis)
        IN
        hr' = IF ~ok THEN Return(h, "raised")
              ELSE IF hr[h].peer # EntityChat(i.target_entity) THEN Continue(h)
              ELSE IF DestOf(i, positive, negative) = "" THEN Continue(h)
              ELSE [hr EXCEPT ![h].pc = "fetch"]
    /\ UNCHANGED <<rfvars, instances, config, stats, dirty, stats_file, flush_due, st_calls, stvars, hdvars, next_msg, error_log,
                   pmvars,
                   forwarded_positive, forwarded_negative, fb_calls>>

\* lines 215-217: client.get_messages
HRFetch(h) ==
    /\ hr[h].pc = "fetch"
    /\ \E res \in {"message", "none", "raise"} :
        hr' = IF res = "message" THEN [hr EXCEPT ![h].pc = "forward"]
              ELSE IF res = "none" THEN Return(h, "no_message")
              ELSE Return(h, "raised")
    /\ UNCHANGED <<rfvars, instances, config, stats, dirty, stats_file, flush_due, st_calls, stvars, hdvars, next_msg, error_log,
                   pmvars,
                   forwarded_positive, forwarded_negative, fb_calls>>

\* lines 219-222
MarkForwarded(positive, negative, key, fpos, fneg) ==
    IF positive THEN <<fpos \cup {key}, fneg>>
    ELSE IF negative THEN <<fpos, fneg \cup {key}>>
    ELSE <<fpos, fneg>>

\* the dedup sets written whether or not forward_to returned
RecordForwardAlways(ok, marked, current) == marked

\* line 218: what follows the await is reached only when forward_to
\* returned
RecordForward(ok, marked, current) == IF ok THEN marked ELSE current

\* the loop going on to the next instance after a forward
NoBreak(h) == Continue(h)

\* line 232
Break(h) == Return(h, "forwarded")

\* lines 218-232: message.forward_to(dest), then the dedup sets
HRForward(h) ==
    /\ hr[h].pc = "forward"
    /\ \E ok \in BOOLEAN :
        LET positive == IsPositive(hr[h].emojis)
            negative == IsNegative(hr[h].emojis)
            marked == MarkForwarded(positive, negative, Key(h),
                                    forwarded_positive, forwarded_negative)
        IN
        /\ fb_calls' = Append(fb_calls,
                [key |-> Key(h), inst |-> hr[h].i, emojis |-> hr[h].emojis,
                 field |-> DestField(positive, negative),
                 dest |-> DestOf(instances[hr[h].i], positive, negative),
                 res |-> ok])
        /\ forwarded_positive' = RecordForward(ok, marked[1],
                                               forwarded_positive)
        /\ forwarded_negative' = RecordForward(ok, marked[2],
                                               forwarded_negative)
        /\ hr' = IF ok THEN Break(h) ELSE Return(h, "raised")
    /\ UNCHANGED <<rfvars, instances, config, stats, dirty, stats_file, flush_due, st_calls, stvars, hdvars, next_msg, error_log,
                   pmvars>>

NextReact ==
    \/ \E h \in Handlers : HRStart(h)
    \/ \E h \in Handlers : HREntity(h)
    \/ \E h \in Handlers : HRFetch(h)
    \/ \E h \in Handlers : HRForward(h)

SpecReact == InitReact /\ [][NextReact]_vars

NextReactSeq ==
    \/ \E h \in Handlers : HRStartSeq(h)
    \/ \E h \in Handlers : HREntity(h)
    \/ \E h \in Handlers : HRFetch(h)
    \/ \E h \in Handlers : HRForward(h)

SpecReactSeq == InitReact /\ [][NextReactSeq]_vars

----------------------------------------------------------------------------
(* telegram_utils.get_safe_name.  A name is a sequence of characters; the  *)
(* characters stand for their classes: an ASCII letter, a hyphen, a        *)
(* space, a punctuation mark and a letter outside ASCII ("U+0436").        *)

NameChars == {"a", "-", " ", "!", "U+0436"}

Names == SeqsUpTo(NameChars, 2)

\* str.isspace
IsSpace(c) == c = " "

\* what \w matches in a str pattern: letters and digits of any script, and
\* the underscore
IsWordChar(c) == c \in {"a", "_", "U+0436"}

\* str.strip
RECURSIVE LStrip(_)
LStrip(s) == IF s # <<>> /\ IsSpace(Head(s)) THEN LStrip(Tail(s)) ELSE s

RECURSIVE RStrip(_)
RStrip(s) ==
    IF s # <<>> /\ IsSpace(s[Len(s)]) THEN RStrip(SubSeq(s, 1, Len(s) - 1))
    ELSE s

Strip(s) == RStrip(LStrip(s))

ChatHistory == <<"c", "h", "a", "t", "_", "h", "i", "s", "t", "o", "r", "y">>

\* lines 20-21: re.sub(r"[^\w\-_.]", "_", name.strip()), and the fallback
\* for an empty result
get_safe_name(name) ==
    LET t == Strip(name)
        safe == [k \in 1..Len(t) |->
                    IF IsWordChar(t[k]) \/ t[k] \in {"-", "_", "."} THEN t[k]
                    ELSE "_"]
    IN  IF safe = <<>> THEN ChatHistory ELSE safe

InitSafeName ==
    /\ RFIdle
    /\ instances = <<>>
    /\ config = DefaultConfig
    /\ STInit
    /\ next_msg = 0
    /\ error_log = 0
    /\ PMInit
    /\ HRInit
    /\ HDInit

\* one call of get_safe_name
GetSafeName ==
    /\ Len(safe_names) < MaxCalls
    /\ \E name \in Names :
          safe_names' = Append(safe_names,
                               [name |-> name, safe |-> get_safe_name(name)])
    /\ UNCHANGED <<instances, config, stats, dirty, stats_file, flush_due,
                   st_calls, stvars, hdvars, next_msg, error_log, pmvars,
                   hrvars, config_file, folder_peers, entity_cache, main_i,
                   rs, edits, muvars>>

NextSafeName == GetSafeName

SpecSafeName == InitSafeName /\ [][NextSafeName]_vars

----------------------------------------------------------------------------
(* Chat ids: telegram_utils and update_instance_chat_ids *)

UserPeer == [kind |-> "user", id |-> 1]

ChannelPeer == [kind |-> "channel", id |-> 2]

Peers == {UserPeer, ChannelPeer}

MUTE_FOREVER == 2147483647

\* PeerNotifySettings.mute_until: absent, a date, or a bare integer; v is
\* the time in seconds
NotMuted == [k |-> "none", v |-> 0]

MutedUntil(n) == [k |-> "date", v |-> n]

\* telethon.utils.get_peer_id: the id an event of that peer carries
get_peer_id(peer) ==
    IF peer.kind = "user" THEN peer.id
    ELSE IF peer.kind = "chat" THEN -peer.id
    ELSE -(ChannelMark + peer.id)

\* what client.get_input_entity finds for a positive integer
PeerOfId(n) == CHOOSE peer \in Peers : peer.id = n

\* what client.get_entity finds for a configured username or link
EntityPeer(e) == IF e = "u1" THEN UserPeer ELSE ChannelPeer

\* to_event_chat_id on an integer; ok tells whether the lookup succeeded
to_event_chat_id(cid, ok) ==
    IF cid <= 0 THEN cid
    ELSE IF ok THEN get_peer_id(PeerOfId(cid))
    ELSE -cid

\* normalize_chat_ids; the lookups of the ids in `failed` raise
normalize_chat_ids(ids, failed) ==
    {to_event_chat_id(cid, cid \notin failed) : cid \in ids}

FolderNames == {"f1"}

\* an Instance with the fields update_instance_chat_ids works on
InstanceWith(f, e, c, m) ==
    Instance(<<>>, <<>>, <<>>, <<1>>, "", "", "", FALSE, <<>>)
    @@ [folders |-> f, entities |-> e, chat_ids |-> c, folder_mute |-> m]

\* "f0" names a folder Telegram does not have; chat id 2 is configured raw
RefreshInstances ==
    {InstanceWith(<<"f1">>, <<"c2">>, {}, FALSE),
     InstanceWith(<<"f0">>, <<"u1">>, {2}, FALSE),
     InstanceWith(<<"f1">>, <<>>, {}, TRUE)}

\* the part of an instance's configuration that the file can change
FileEntry(i) == [words |-> i.words, folders |-> i.folders]

FileWords == {<<>>, <<<<"A">>>>}

FileFolders == {<<>>, <<"f1">>}

NewTask(start) == [pc |-> IF start THEN "folders" ELSE "none", new_ids |-> {},
                   loaded |-> TRUE, failed_at |-> "none",
                   refreshed |-> FALSE, todo |-> {}, cur |-> <<>>]

\* startup, at the update of the first instance; instances is given
RefreshStart ==
    /\ config = DefaultConfig
    /\ config_file = [openai_api_key |-> TRUE,
                      instances |-> [k \in 1..Len(instances) |->
                                        FileEntry(instances[k])]]
    /\ entity_cache = {}
    /\ main_i = 1
    /\ rs = [k \in 1..Len(instances) |-> NewTask(k = 1)]
    /\ edits = 0
    /\ STInit
    /\ next_msg = 0
    /\ error_log = 0
    /\ PMInit
    /\ HRInit
    /\ HDInit
    /\ mute_log = <<>>
    /\ safe_names = <<>>

InitRefresh ==
    /\ instances \in SeqsUpTo(RefreshInstances, MaxInstances) \ {<<>>}
    /\ RefreshStart
    /\ folder_peers = [f \in FolderNames |-> Peers]
    /\ notify = [p \in Peers |-> NotMuted]

\* main has not been ended by an exception
Alive == main_i # 0

\* the update of instance k is the one main awaits before creating the task
FirstRun(k) == main_i = k

\* update_instance_chat_ids returns: main creates the rescan task and goes
\* on to the next instance (lines 255-257), or rescan_loop sleeps again
UpdateDone(k, r) ==
    /\ rs' = IF FirstRun(k) /\ k < Len(instances)
             THEN [r EXCEPT ![k].pc = "sleep", ![k].new_ids = {},
                            ![k].refreshed = TRUE,
                            ![k + 1].pc = "folders"]
             ELSE [r EXCEPT ![k].pc = "sleep", ![k].new_ids = {},
                            ![k].refreshed = TRUE]
    /\ main_i' = IF FirstRun(k) THEN k + 1 ELSE main_i

\* update_instance_chat_ids raises: neither main nor rescan_loop catches
UpdateRaised(k, where) ==
    /\ rs' = [rs EXCEPT ![k].pc = "dead", ![k].new_ids = {},
                        ![k].failed_at = where]
    /\ main_i' = IF FirstRun(k) THEN 0 ELSE main_i

\* the configured folders that Telegram has
FoundFolders(i) == {i.folders[j] : j \in 1..Len(i.folders)} \cap FolderNames

\* rescan_loop, lines 80-83: the sleep ends, the configuration is read again
RescanWake(k) ==
    /\ Alive
    /\ rs[k].pc = "sleep"
    /\ config' = [openai_api_key |-> config_file.openai_api_key]
    /\ rs' = [rs EXCEPT ![k].pc = "folders", ![k].loaded = TRUE]
    /\ UNCHANGED <<instances, stats, dirty, stats_file, flush_due, st_calls, stvars, hdvars, safe_names, muvars, next_msg, error_log, pmvars, hrvars,
                   config_file, folder_peers, entity_cache, main_i, edits>>

\* lines 59-60: get_folders_chat_ids, then the previously known ids
GetFoldersChatIds(k) ==
    /\ Alive
    /\ rs[k].pc = "folders"
    /\ LET i == instances[k] IN
       IF Len(i.folders) = 0
       THEN /\ rs' = [rs EXCEPT ![k].pc = "entities",
                                ![k].new_ids = i.chat_ids]
            /\ main_i' = main_i
       ELSE \E ok \in BOOLEAN :
            IF ok
            THEN /\ rs' = [rs EXCEPT ![k].pc = "entities",
                       ![k].new_ids =
                           {get_peer_id(peer) :
                               peer \in UNION {folder_peers[f] :
                                                 f \in FoundFolders(i)}}
                           \cup i.chat_ids]
                 /\ main_i' = main_i
            ELSE UpdateRaised(k, "folders")
    /\ UNCHANGED <<instances, config, stats, dirty, stats_file, flush_due, st_calls, stvars, hdvars, safe_names, muvars, next_msg, error_log, pmvars,
                   hrvars, config_file, folder_peers, entity_cache, edits>>

\* line 61: resolve_entities; an entity that is not in the cache may fail,
\* and is then skipped
ResolveEntities(k) ==
    /\ Alive
    /\ rs[k].pc = "entities"
    /\ LET ents == {instances[k].entities[j] :
                       j \in 1..Len(instances[k].entities)}
       IN
       \E failed \in SUBSET (ents \ entity_cache) :
           /\ entity_cache' = entity_cache \cup (ents \ failed)
           /\ rs' = [rs EXCEPT ![k].pc = "normalize",
                      ![k].new_ids = rs[k].new_ids
                          \cup {get_peer_id(EntityPeer(e)) :
                                   e \in ents \ failed}]
    /\ UNCHANGED <<instances, config, stats, dirty, stats_file, flush_due, st_calls, stvars, hdvars, safe_names, muvars, next_msg, error_log, pmvars,
                   hrvars, config_file, folder_peers, main_i, edits>>

\* lines 62-63: normalize_chat_ids and the assignment of instance.chat_ids
NormalizeChatIds(k) ==
    /\ Alive
    /\ rs[k].pc = "normalize"
    /\ \E failed \in SUBSET {cid \in rs[k].new_ids : cid > 0} :
           instances' = [instances EXCEPT ![k].chat_ids =
                            normalize_chat_ids(rs[k].new_ids, failed)]
    /\ IF instances[k].folder_mute
       THEN /\ rs' = [rs EXCEPT ![k].pc = "mute"]
            /\ main_i' = main_i
       ELSE UpdateDone(k, rs)
    /\ UNCHANGED <<config, stats, dirty, stats_file, flush_due, st_calls, stvars, hdvars, safe_names, muvars, next_msg, error_log, pmvars, hrvars,
                   config_file, folder_peers, entity_cache, edits>>

\* line 64: mute_chats_from_folders; mute_peer_and_topics reads
\* peer.channel_id before its try, which only a channel peer has
MuteChatsFromFolders(k) ==
    /\ Alive
    /\ rs[k].pc = "mute"
    /\ LET i == instances[k] IN
       IF Len(i.folders) = 0 THEN UpdateDone(k, rs)
       ELSE \E ok \in BOOLEAN :
            IF /\ ok
               /\ \A f \in FoundFolders(i) :
                     \A peer \in folder_peers[f] : peer.kind = "channel"
            THEN UpdateDone(k, rs)
            ELSE UpdateRaised(k, "mute")
    /\ UNCHANGED <<instances, config, stats, dirty, stats_file, flush_due, st_calls, stvars, hdvars, safe_names, muvars, next_msg, error_log, pmvars,
                   hrvars, config_file, folder_peers, entity_cache, edits>>

\* the user takes a chat out of a folder
RemoveFromFolder ==
    /\ Alive
    /\ \E f \in FolderNames : \E peer \in folder_peers[f] :
           folder_peers' = [folder_peers EXCEPT ![f] = @ \ {peer}]
    /\ UNCHANGED <<instances, config, stats, dirty, stats_file, flush_due, st_calls, stvars, hdvars, safe_names, muvars, next_msg, error_log, pmvars,
                   hrvars, config_file, entity_cache, main_i, rs, edits>>

\* the user changes the configuration file: the API key, or the words or
\* the folders of one instance
EditConfigFile ==
    /\ Alive
    /\ edits < MaxEdits
    /\ edits' = edits + 1
    /\ \/ config_file' = [config_file EXCEPT
                             !.openai_api_key = ~config_file.openai_api_key]
       \/ \E k \in 1..Len(instances), w \in FileWords :
             /\ w # config_file.instances[k].words
             /\ config_file' = [config_file EXCEPT !.instances[k].words = w]
       \/ \E k \in 1..Len(instances), f \in FileFolders :
             /\ f # config_file.instances[k].folders
             /\ config_file' = [config_file EXCEPT !.instances[k].folders = f]
    /\ rs' = [k \in 1..Len(rs) |-> [rs[k] EXCEPT !.loaded = FALSE]]
    /\ UNCHANGED <<instances, config, stats, dirty, stats_file, flush_due, st_calls, stvars, hdvars, safe_names, muvars, next_msg, error_log, pmvars,
                   hrvars, folder_peers, entity_cache, main_i>>

\* the steps of the startup update and of the rescan task of instance k
RescanStep(k) ==
    /\ k <= Len(instances)
    /\ \/ RescanWake(k)
       \/ GetFoldersChatIds(k)
       \/ ResolveEntities(k)
       \/ NormalizeChatIds(k)
       \/ MuteChatsFromFolders(k)

NextRefresh ==
    \/ \E k \in 1..Len(instances) : RescanWake(k)
    \/ \E k \in 1..Len(instances) : GetFoldersChatIds(k)
    \/ \E k \in 1..Len(instances) : ResolveEntities(k)
    \/ \E k \in 1..Len(instances) : NormalizeChatIds(k)
    \/ \E k \in 1..Len(instances) : MuteChatsFromFolders(k)
    \/ RemoveFromFolder

SpecRefresh == InitRefresh /\ [][NextRefresh]_vars

\* one instance, and a configuration file that changes while it runs
InitReload == InitRefresh /\ Len(instances) = 1

NextReload ==
    \/ NextRefresh
    \/ EditConfigFile

SpecReload == InitReload /\ [][NextReload]_vars

\* every task that can take a step eventually takes one
SpecRefreshLive ==
    SpecRefresh /\ \A k \in 1..MaxInstances : WF_vars(RescanStep(k))

----------------------------------------------------------------------------
(* mute_chats_from_folders step by step: one action per request awaited.   *)
(* MuteChatsFromFolders above is the whole pass as one step, for the       *)
(* specifications that only need how the pass ends.                        *)

\* a second channel and a basic group, for folders of several kinds
OtherChannel == [kind |-> "channel", id |-> 3]

GroupPeer == [kind |-> "chat", id |-> 4]

MutePeers == Peers \cup {OtherChannel, GroupPeer}

\* mute_notify_peer, lines 419-424: the time mute_until stands for
Ts(mu) == IF mu.k = "date" THEN mu.v ELSE IF mu.k = "none" THEN 0 ELSE mu.v

NeedsMuteAlways(mu) == TRUE

\* line 425
NeedsMute(mu) == Ts(mu) # MUTE_FOREVER

\* the peers whose notifications are silenced forever
MutedForever == {p \in DOMAIN notify : notify[p].v = MUTE_FOREVER}

\* one request of a mute pass to Telegram's folders or notify settings;
\* peers is what it is about, muted what Telegram held when it was made
MuteRequest(k, op, peers, ok) ==
    [task |-> k, op |-> op, peers |-> peers, ok |-> ok,
     muted |-> MutedForever]

IsList(r) == r.op = "list"

PassesBegun == Len(SelectSeq(mute_log, IsList))

Failed(r) == ~r.ok

\* a request is answered or raises; the failures of a run are numbered up
\* to MaxFailures
Answers == IF Len(SelectSeq(mute_log, Failed)) < MaxFailures THEN BOOLEAN
           ELSE {TRUE}

\* the passes of a run are numbered up to MaxPasses
MuteWake(k) ==
    /\ PassesBegun < MaxPasses
    /\ RescanWake(k)

\* lines 448-455: list_folders and get_folder; the include_peers of the
\* folders found are what the pass goes through
MuteListFolders(k) ==
    /\ Alive
    /\ rs[k].pc = "mute"
    /\ LET i == instances[k]
           peers == UNION {folder_peers[f] : f \in FoundFolders(i)}
       IN
       IF Len(i.folders) = 0
       THEN UpdateDone(k, rs) /\ mute_log' = mute_log
       ELSE \E ok \in Answers :
            /\ mute_log' = Append(mute_log, MuteRequest(k, "list", peers, ok))
            /\ IF ok
               THEN /\ rs' = [rs EXCEPT ![k].pc = "mute_peer",
                                        ![k].todo = peers]
                    /\ main_i' = main_i
               ELSE UpdateRaised(k, "mute")
    /\ UNCHANGED <<instances, config, stats, dirty, stats_file, flush_due,
                   st_calls, stvars, hdvars, safe_names, next_msg, error_log, pmvars,
                   hrvars, config_file, folder_peers, entity_cache, edits,
                   notify>>

\* lines 455-437: the next peer of the folder; mute_peer_and_topics reads
\* peer.channel_id for its debug record before any try
MutePeer(k) ==
    /\ Alive
    /\ rs[k].pc = "mute_peer"
    /\ IF rs[k].todo = {}
       THEN UpdateDone(k, rs)
       ELSE \E p \in rs[k].todo :
            IF p.kind = "channel"
            THEN /\ rs' = [rs EXCEPT ![k].pc = "mute_input",
                                     ![k].todo = @ \ {p},
                                     ![k].cur = <<p>>]
                 /\ main_i' = main_i
            ELSE UpdateRaised(k, "mute")
    /\ UNCHANGED <<instances, config, stats, dirty, stats_file, flush_due,
                   st_calls, stvars, hdvars, safe_names, next_msg, error_log, pmvars,
                   hrvars, config_file, folder_peers, entity_cache, edits,
                   muvars>>

\* lines 438-442: client.get_input_entity; a failure is logged and the
\* peer left as it is
MuteInput(k) ==
    /\ Alive
    /\ rs[k].pc = "mute_input"
    /\ \E ok \in Answers :
          /\ mute_log' = Append(mute_log,
                                MuteRequest(k, "input", {rs[k].cur[1]}, ok))
          /\ rs' = IF ok THEN [rs EXCEPT ![k].pc = "mute_read"]
                   ELSE [rs EXCEPT ![k].pc = "mute_peer", ![k].cur = <<>>]
    /\ UNCHANGED <<instances, config, stats, dirty, stats_file, flush_due,
                   st_calls, stvars, hdvars, safe_names, next_msg, error_log, pmvars,
                   hrvars, config_file, folder_peers, entity_cache, edits,
                   main_i, notify>>

\* mute_notify_peer, lines 418-425: GetNotifySettingsRequest and the test
\* of what it returned
MuteRead(k) ==
    /\ Alive
    /\ rs[k].pc = "mute_read"
    /\ \E ok \in Answers :
          /\ mute_log' = Append(mute_log,
                                MuteRequest(k, "get", {rs[k].cur[1]}, ok))
          /\ rs' = IF ok /\ NeedsMute(notify[rs[k].cur[1]])
                   THEN [rs EXCEPT ![k].pc = "mute_write"]
                   ELSE [rs EXCEPT ![k].pc = "mute_peer", ![k].cur = <<>>]
    /\ UNCHANGED <<instances, config, stats, dirty, stats_file, flush_due,
                   st_calls, stvars, hdvars, safe_names, next_msg, error_log, pmvars,
                   hrvars, config_file, folder_peers, entity_cache, edits,
                   main_i, notify>>

\* lines 426-433: UpdateNotifySettingsRequest; an exception is logged
MuteWrite(k) ==
    /\ Alive
    /\ rs[k].pc = "mute_write"
    /\ \E ok \in Answers :
          /\ mute_log' = Append(mute_log,
                                MuteRequest(k, "update", {rs[k].cur[1]}, ok))
          /\ notify' = IF ok
                       THEN [notify EXCEPT ![rs[k].cur[1]] =
                                MutedUntil(MUTE_FOREVER)]
                       ELSE notify
    /\ rs' = [rs EXCEPT ![k].pc = "mute_peer", ![k].cur = <<>>]
    /\ UNCHANGED <<instances, config, stats, dirty, stats_file, flush_due,
                   st_calls, stvars, hdvars, safe_names, next_msg, error_log, pmvars,
                   hrvars, config_file, folder_peers, entity_cache, edits,
                   main_i>>

\* folders of channels only, and folders with a user or a basic group
MuteFolders == {{ChannelPeer, OtherChannel}, {ChannelPeer, UserPeer},
                {ChannelPeer, GroupPeer}}

\* nothing muted, one channel muted by the user, a channel muted for a
\* while and one silenced with a bare integer, every peer muted
MuteSettings ==
    {[p \in MutePeers |-> NotMuted],
     [p \in MutePeers |-> IF p = ChannelPeer THEN MutedUntil(MUTE_FOREVER)
                          ELSE NotMuted],
     [p \in MutePeers |-> IF p = ChannelPeer THEN MutedUntil(1)
                          ELSE [k |-> "int", v |-> MUTE_FOREVER]],
     [p \in MutePeers |-> MutedUntil(MUTE_FOREVER)]}

\* one instance with folder_mute: its startup pass, then its rescans
InitMute ==
    /\ instances = <<InstanceWith(<<"f1">>, <<>>, {}, TRUE)>>
    /\ RefreshStart
    /\ \E peers \in MuteFolders :
          folder_peers = [f \in FolderNames |-> peers]
    /\ notify \in MuteSettings

NextMute ==
    \/ \E k \in 1..Len(instances) : MuteWake(k)
    \/ \E k \in 1..Len(instances) : GetFoldersChatIds(k)
    \/ \E k \in 1..Len(instances) : ResolveEntities(k)
    \/ \E k \in 1..Len(instances) : NormalizeChatIds(k)
    \/ \E k \in 1..Len(instances) : MuteListFolders(k)
    \/ \E k \in 1..Len(instances) : MutePeer(k)
    \/ \E k \in 1..Len(instances) : MuteInput(k)
    \/ \E k \in 1..Len(instances) : MuteRead(k)
    \/ \E k \in 1..Len(instances) : MuteWrite(k)

SpecMute == InitMute /\ [][NextMute]_vars

----------------------------------------------------------------------------
(* main: registration of the handlers, and the NewMessage handler.  Every  *)
(* update is dispatched to the handler as a task of its own; events[t] is  *)
(* the task of the t-th update, a step is what it does between two awaits. *)

\* the handlers are registered as soon as the client has started
RegisteredEarly == main_i # 0

\* lines 255-263: main reaches the decorators when the loop over the
\* instances has ended
Registered == main_i = Len(instances) + 1

\* event.message.sender as the handler reads it: id 0 and username <<>>
\* stand for None
NoSender == [user_id |-> 0, username |-> <<>>]

Senders ==
    {NoSender, [user_id |-> 1, username |-> <<"b">>],
     [user_id |-> 2, username |-> <<"A">>]}

BlockConfig == [ignore_user_ids |-> {1}, ignore_usernames |-> <<<<"a">>>>]

EventChats == {-1, -2}

EventTexts == {<<"a">>, <<"b">>}

\* a keyword of both instances below, and a negative word of the second

Arrivals ==
    {[chat |-> c, text |-> t, sender |-> sd] :
        c \in EventChats, t \in EventTexts, sd \in Senders}

StartupArrivals == {[chat |-> -1, text |-> <<"a">>, sender |-> NoSender]}

NewEvent(a) ==
    [pc |-> "handler", chat |-> a.chat, text |-> a.text,
     user_id |-> a.sender.user_id, username |-> a.sender.username,
     i |-> 0, forward |-> FALSE, p_idx |-> 0, d_idx |-> 0,
     result |-> "none"]

\* an update with a new message arrives: the client starts a handler task
\* for it when the handler is registered
ArriveFrom(A) ==
    /\ Registered
    /\ Len(events) < MaxMessages
    /\ \E a \in A : events' = Append(events, NewEvent(a))
    /\ UNCHANGED <<instances, config, stats, dirty, stats_file, flush_due,
                   st_calls, stvars, next_msg, error_log, pmvars, hrvars,
                   rfvars, app_config, hcalls>>

Arrive == ArriveFrom(Arrivals)

StartupArrive == ArriveFrom(StartupArrivals)

\* an update with reactions arrives: reaction_event_handler is called
DispatchReaction(h) ==
    /\ Registered
    /\ HRBegin(h, POSITIVE_REACTIONS, 1, 1)

\* the user names are compared as they are written
IgnoredSenderExact(e, cfg) ==
    \/ e.user_id # 0 /\ e.user_id \in cfg.ignore_user_ids
    \/ /\ e.username # <<>>
       /\ \E k \in 1..Len(cfg.ignore_usernames) :
            e.username = cfg.ignore_usernames[k]

\* lines 267-274: the two tests on the sender
IgnoredSender(e, cfg) ==
    \/ e.user_id # 0 /\ e.user_id \in cfg.ignore_user_ids
    \/ /\ e.username # <<>>
       /\ \E k \in 1..Len(cfg.ignore_usernames) :
            ToLower(e.username) = ToLower(cfg.ignore_usernames[k])

\* the outcome of a step of a task: its record, the tracker data, and the
\* instance the message was counted for (0: none)
Outcome(e, data, counted) == [ev |-> e, data |-> data, counted |-> counted]

\* lines 276-278 with process_message up to its first await: the loop goes
\* on at instance i; an instance that does not watch the chat is passed, and
\* so is one whose ignore_words or negative_words return at once
RECURSIVE EnterFrom(_, _, _)
EnterFrom(e, i, data) ==
    IF i > Len(instances)
    THEN Outcome([e EXCEPT !.pc = "done", !.i = 0], data, 0)
    ELSE IF e.chat \notin instances[i].chat_ids
    THEN EnterFrom(e, i + 1, data)
    ELSE IF /\ e.text # <<>>
            /\ \/ word_in_text(instances[i].ignore_words, e.text)
               \/ word_in_text(instances[i].negative_words, e.text)
    THEN EnterFrom(e, i + 1, data)
    ELSE Outcome([e EXCEPT !.pc = "words", !.i = i, !.forward = FALSE,
                           !.p_idx = 0, !.d_idx = 0],
                 increment(data, InstanceName(i), today, FALSE, FALSE, FALSE),
                 i)

\* a call of task t as hcalls keeps it; res tells whether a send or a
\* forward succeeded and whether a score reached the threshold, tokens is
\* the usage a match_prompt call reported
HCall(t, op, arg, res) ==
    [msg |-> t, inst |-> events[t].i, op |-> op, arg |-> arg, res |-> res,
     tokens |-> 0]

\* the step of task t ends with outcome r
Commit(t, r) ==
    /\ events' = [events EXCEPT ![t] = r.ev]
    /\ stats' = r.data
    /\ st_calls' = IF r.counted = 0 THEN st_calls
                   ELSE Append(st_calls,
                               IncrementCall(InstanceName(r.counted), today,
                                             FALSE, FALSE, FALSE))
    /\ IF r.data = stats THEN UNCHANGED <<dirty, stats_file, flush_due>>
       ELSE LET a == AfterMutation(r.data, flush_due, stats_file)
            IN  /\ dirty' = a.dirty
                /\ stats_file' = a.file
                /\ flush_due' = a.due

hframe == <<instances, config, stvars, next_msg, pmvars, hrvars, rfvars,
            app_config>>

\* lines 264-278 and 88-104: sender tests, then the loop up to the first
\* await of a process_message
HStart(t) ==
    /\ events[t].pc = "handler"
    /\ IF IgnoredSender(events[t], app_config)
       THEN Commit(t, Outcome([events[t] EXCEPT !.pc = "done",
                                               !.result = "ignored"],
                              stats, 0))
       ELSE Commit(t, EnterFrom(events[t], 1, stats))
    /\ UNCHANGED <<hframe, hcalls, error_log>>

\* lines 104-117 and 129, 163
HWords(t) ==
    /\ events[t].pc = "words"
    /\ LET e == events[t]
           I == instances[e.i]
       IN  IF HasText(e.text) /\ Truthy(find_word(I.words, e.text))
           THEN Commit(t, Outcome([e EXCEPT !.forward = TRUE,
                                           !.pc = "prepare"], stats, 0))
           ELSE IF HasText(e.text) /\ Len(I.prompts) > 0
           THEN Commit(t, Outcome([e EXCEPT !.p_idx = 1, !.pc = "scan"],
                                  stats, 0))
           ELSE Commit(t, EnterFrom(e, e.i + 1, stats))
    /\ UNCHANGED <<hframe, hcalls, error_log>>

\* lines 118-128: one match_prompt call and the tests on its score
HEvalPrompt(t) ==
    /\ events[t].pc = "scan"
    /\ \E ev \in EvaluatorOutcomes :
        LET e == events[t]
            I == instances[e.i]
            p == I.prompts[e.p_idx]
            r == match_prompt(p, config, ev)
            data == add_tokens(stats, InstanceName(e.i), r.tokens)
        IN
        IF r.raised
        THEN /\ hcalls' = Append(hcalls,
                    [HCall(t, "match_prompt_raised", e.p_idx, FALSE)
                        EXCEPT !.tokens = r.tokens])
             /\ Commit(t, Outcome([e EXCEPT !.pc = "done",
                                            !.result = "raised"], data, 0))
        ELSE /\ hcalls' = Append(hcalls,
                    [HCall(t, "match_prompt", e.p_idx,
                           ReachesThreshold(r.score, p))
                        EXCEPT !.tokens = r.tokens])
             /\ IF ReachesThreshold(r.score, p)
                THEN Commit(t, Outcome([e EXCEPT !.forward = TRUE,
                                                !.pc = "prepare"], data, 0))
                ELSE IF e.p_idx < Len(I.prompts)
                THEN Commit(t, Outcome([e EXCEPT !.p_idx = @ + 1], data, 0))
                ELSE Commit(t, EnterFrom(e, e.i + 1, data))
    /\ UNCHANGED <<hframe, error_log>>

\* lines 129-148
HPrepare(t) ==
    /\ events[t].pc = "prepare"
    /\ LET e == events[t]
           I == instances[e.i]
       IN  IF Len(Destinations(I)) = 0
           THEN Commit(t, EnterFrom(e, e.i + 1, stats))
           ELSE Commit(t, Outcome(
                    [e EXCEPT !.d_idx = 1,
                              !.pc = IF I.no_forward_message THEN "forward"
                                     ELSE "send"], stats, 0))
    /\ UNCHANGED <<hframe, hcalls, error_log>>

\* line 150, and lines 161-162 when the call raises
HSend(t) ==
    /\ events[t].pc = "send"
    /\ \E ok \in BOOLEAN :
        LET e == events[t]
            I == instances[e.i]
        IN
        /\ hcalls' = Append(hcalls, HCall(t, "send_message",
                                          Destinations(I)[e.d_idx], ok))
        /\ IF ok
           THEN /\ Commit(t, Outcome([e EXCEPT !.pc = "forward"], stats, 0))
                /\ UNCHANGED error_log
           ELSE /\ Commit(t, EnterFrom(e, e.i + 1, stats))
                /\ error_log' = error_log + 1
    /\ UNCHANGED hframe

\* lines 151-160, and lines 161-162 when the call raises
HForward(t) ==
    /\ events[t].pc = "forward"
    /\ \E ok \in BOOLEAN :
        LET e == events[t]
            I == instances[e.i]
        IN
        /\ hcalls' = Append(hcalls, HCall(t, "forward_to",
                                          Destinations(I)[e.d_idx], ok))
        /\ IF ~ok
           THEN /\ Commit(t, EnterFrom(e, e.i + 1, stats))
                /\ error_log' = error_log + 1
           ELSE IF e.d_idx < Len(Destinations(I))
           THEN /\ Commit(t, Outcome(
                        [e EXCEPT !.d_idx = @ + 1,
                                  !.pc = IF I.no_forward_message
                                         THEN "forward" ELSE "send"],
                        stats, 0))
                /\ UNCHANGED error_log
           ELSE /\ Commit(t, EnterFrom(e, e.i + 1, stats))
                /\ UNCHANGED error_log
    /\ UNCHANGED hframe

\* an instance of the handler specification: what it matches, where it
\* forwards to and the chats it watches
HandlerInstance(w, nw, ps, te, c) ==
    Instance(w, nw, <<>>, <<1>>, te, "", "", FALSE, ps)
    @@ [folders |-> <<>>, entities |-> <<>>, chat_ids |-> c,
        folder_mute |-> FALSE]

KeywordOrPrompt ==
    HandlerInstance(<<<<"A">>>>, <<>>, <<PromptOf(DefaultThreshold)>>, "",
                    {-1})

KeywordOnly == HandlerInstance(<<<<"A">>>>, <<<<"b">>>>, <<>>, "", {-2})

\* startup is over: every instance refreshed once, its rescan task asleep
InitHandler ==
    /\ instances \in {<<KeywordOrPrompt>>, <<KeywordOnly, KeywordOrPrompt>>}
    /\ config = DefaultConfig
    /\ config_file = [openai_api_key |-> TRUE,
                      instances |-> [k \in 1..Len(instances) |->
                                        FileEntry(instances[k])]]
    /\ folder_peers = [f \in FolderNames |-> Peers]
    /\ entity_cache = {}
    /\ main_i = Len(instances) + 1
    /\ rs = [k \in 1..Len(instances) |->
                [NewTask(FALSE) EXCEPT !.pc = "sleep", !.refreshed = TRUE]]
    /\ edits = 0
    /\ STInit
    /\ next_msg = 0
    /\ error_log = 0
    /\ PMInit
    /\ HRInit
    /\ app_config = BlockConfig
    /\ events = <<>>
    /\ hcalls = <<>>
    /\ notify = [p \in Peers |-> NotMuted]
    /\ mute_log = <<>>
    /\ safe_names = <<>>

NextHandler ==
    \/ Arrive
    \/ \E t \in 1..Len(events) : HStart(t)
    \/ \E t \in 1..Len(events) : HWords(t)
    \/ \E t \in 1..Len(events) : HEvalPrompt(t)
    \/ \E t \in 1..Len(events) : HPrepare(t)
    \/ \E t \in 1..Len(events) : HSend(t)
    \/ \E t \in 1..Len(events) : HForward(t)

SpecHandler == InitHandler /\ [][NextHandler]_vars

\* main from client.start() to the dispatch of the first updates
InitStartup ==
    /\ InitRefresh
    /\ instances \in SeqsUpTo({InstanceWith(<<"f1">>, <<>>, {}, TRUE)},
                              MaxInstances)

NextStartup ==
    \/ NextRefresh
    \/ StartupArrive
    \/ \E h \in Handlers : DispatchReaction(h)

SpecStartup == InitStartup /\ [][NextStartup]_vars

----------------------------------------------------------------------------
(* the two stores on their own: calls, the passing of time, flushes *)

StoreNames == {"a", "b"}

\* each store constructed on what its file holds
InitStore ==
    /\ RFIdle
    /\ instances = <<>>
    /\ config = DefaultConfig
    /\ next_msg = 0
    /\ error_log = 0
    /\ PMInit
    /\ HRInit
    /\ HDInit
    /\ today = "d1"
    /\ \E files \in {<<<<>>, <<>>>>, <<<<OldStatsFile>>, <<FlatTraceFile>>>>,
                      <<<<CorruptStatsFile>>, <<CorruptTraceFile>>>>} :
            stats_file = files[1] /\ trace_file = files[2]
    /\ stats = LoadStats(stats_file)
    /\ stats0 = stats
    /\ dirty = FALSE
    /\ flush_due = FALSE
    /\ st_calls = <<>>
    /\ traces = LoadTraces(trace_file)
    /\ traces0 = traces
    /\ trace_dirty = FALSE
    /\ trace_due = FALSE
    /\ trace_calls = <<>>

notstore == <<instances, config, next_msg, error_log, pmvars, hrvars, rfvars,
              hdvars>>

\* increment and set calls, and the tokens added one by one since the start
CallsMade ==
    Len(st_calls) + Len(trace_calls) + stats.stats.tokens - stats0.stats.tokens

\* stats.increment(name, forwarded, used_word, used_prompt)
StIncrement ==
    /\ CallsMade < MaxCalls
    /\ \E name \in StoreNames, fwd \in BOOLEAN, w \in BOOLEAN, p \in BOOLEAN :
        /\ stats' = increment(stats, name, today, fwd, w, p)
        /\ st_calls' = Append(st_calls, IncrementCall(name, today, fwd, w, p))
    /\ LET a == AfterMutation(stats', flush_due, stats_file)
       IN  /\ dirty' = a.dirty
           /\ stats_file' = a.file
           /\ flush_due' = a.due
    /\ UNCHANGED <<notstore, today, stats0, traces, trace_dirty, trace_file,
                   trace_due, traces0, trace_calls>>

\* stats.add_tokens(name, tokens)
StAddTokens ==
    /\ CallsMade < MaxCalls
    /\ \E name \in StoreNames, tk \in Tokens :
        /\ stats' = add_tokens(stats, name, tk)
        /\ IF tk <= 0 THEN UNCHANGED <<dirty, stats_file, flush_due>>
           ELSE LET a == AfterMutation(stats', flush_due, stats_file)
                IN  /\ dirty' = a.dirty
                    /\ stats_file' = a.file
                    /\ flush_due' = a.due
    /\ UNCHANGED <<notstore, st_calls, stvars>>

\* StatsTracker.flush
StFlush ==
    /\ IF dirty
       THEN /\ stats_file' = <<StatsFile(stats)>>
            /\ dirty' = FALSE
            /\ flush_due' = FALSE
       ELSE UNCHANGED <<stats_file, dirty, flush_due>>
    /\ UNCHANGED <<notstore, stats, st_calls, stvars>>

\* trace_ids.set(chat_id, message_id, trace_id)
TrSet ==
    /\ CallsMade < MaxCalls
    /\ \E c \in Ids, m \in MessageIds, tid \in TraceIds \cup {""} :
        /\ traces' = trace_set(traces, c, m, tid)
        /\ trace_calls' = Append(trace_calls,
                [chat_id |-> c, message_id |-> m, trace_id |-> tid])
        /\ IF tid = "" THEN UNCHANGED <<trace_dirty, trace_file, trace_due>>
           ELSE IF trace_due
           THEN /\ trace_file' = <<TraceFile(traces')>>
                /\ trace_dirty' = FALSE
                /\ trace_due' = FALSE
           ELSE /\ trace_dirty' = TRUE
                /\ UNCHANGED <<trace_file, trace_due>>
    /\ UNCHANGED <<notstore, stats, dirty, stats_file, flush_due, today,
                   stats0, st_calls, traces0>>

\* TraceStore.flush
TrFlush ==
    /\ IF trace_dirty
       THEN /\ trace_file' = <<TraceFile(traces)>>
            /\ trace_dirty' = FALSE
            /\ trace_due' = FALSE
       ELSE UNCHANGED <<trace_file, trace_dirty, trace_due>>
    /\ UNCHANGED <<notstore, stats, dirty, stats_file, flush_due, today,
                   stats0, st_calls, traces, traces0, trace_calls>>

\* flush_interval seconds have gone by since the last flush of each store
IntervalElapses ==
    /\ ~(flush_due /\ trace_due)
    /\ flush_due' = TRUE
    /\ trace_due' = TRUE
    /\ UNCHANGED <<notstore, stats, dirty, stats_file, today, stats0,
                   st_calls, traces, trace_dirty, trace_file, traces0,
                   trace_calls>>

\* current_day() moves on
NextDay ==
    /\ today = "d1"
    /\ today' = "d2"
    /\ UNCHANGED <<notstore, stats, dirty, stats_file, flush_due, stats0,
                   st_calls, traces, trace_dirty, trace_file, trace_due,
                   traces0, trace_calls>>

NextStore ==
    \/ StIncrement
    \/ StAddTokens
    \/ StFlush
    \/ TrSet
    \/ TrFlush
    \/ IntervalElapses
    \/ NextDay

SpecStore == InitStore /\ [][NextStore]_vars

----------------------------------------------------------------------------
(* The stats file across restarts: files of the old format, converted when *)
(* the tracker is constructed on them                                      *)

\* the days of an instance of an old file: bare totals
LegacyDays == {EmptyDict, "d1" :> [bare |-> 1],
               ("d1" :> [bare |-> 1]) @@ ("d2" :> [bare |-> 2])}

LegacyInstances ==
    {[name |-> n, total |-> t, tokens |-> k, days |-> ds] :
        n \in StoreNames, t \in {1, 3}, k \in Tokens, ds \in LegacyDays}

\* old data with every key, with keys missing, and with a day that a
\* newer version already wrote nested
LegacyData ==
    {[total |-> t, tokens |-> k, instances |-> is] :
        t \in {0, 3}, k \in Tokens, is \in SeqsUpTo(LegacyInstances, 1)}
    \cup {[instances |-> <<[name |-> "a", days |-> ("d1" :> [bare |-> 1])]>>]}
    \cup {[total |-> 1, tokens |-> 0,
           instances |-> <<[name |-> "a", total |-> 1, tokens |-> 0,
                            days |-> ("d1" :>
                                [EmptyStats EXCEPT !.total = 1,
                                                   !.forwarded_total = 1])]>>]}

\* the tracker constructed on an old file
InitConvert ==
    /\ RFIdle
    /\ instances = <<>>
    /\ config = DefaultConfig
    /\ next_msg = 0
    /\ error_log = 0
    /\ PMInit
    /\ HRInit
    /\ HDInit
    /\ today = "d1"
    /\ stats_file \in {<<[format |-> "old", value |-> v]>> : v \in LegacyData}
    /\ stats = LoadStats(stats_file)
    /\ stats0 = stats
    /\ dirty = FALSE
    /\ flush_due = FALSE
    /\ st_calls = <<>>
    /\ trace_file = <<>>
    /\ traces = EmptyDict
    /\ traces0 = EmptyDict
    /\ trace_dirty = FALSE
    /\ trace_due = FALSE
    /\ trace_calls = <<>>

\* the process ends, flushing at exit, and a new one constructs its
\* tracker on the file; the runs are numbered by the tokens counted
StRestart ==
    /\ stats.stats.tokens <= MaxCalls
    /\ stats_file' = IF dirty THEN <<StatsFile(stats)>> ELSE stats_file
    /\ stats' = LoadStats(stats_file')
    /\ stats0' = stats'
    /\ dirty' = FALSE
    /\ flush_due' = FALSE
    /\ st_calls' = <<>>
    /\ UNCHANGED <<notstore, today, traces, trace_dirty, trace_file,
                   trace_due, traces0, trace_calls>>

NextConvert ==
    \/ StAddTokens
    \/ StFlush
    \/ StRestart

SpecConvert == InitConvert /\ [][NextConvert]_vars

----------------------------------------------------------------------------
(* Vocabulary of the properties, stated without the operators above *)

EqIgnoreCase(c, d) == c = d \/ {c, d} = {"a", "A"}

IsSubstringIgnoringCase(w, t) ==
    \E k \in 0..(Len(t) - Len(w)) :
        \A j \in 1..Len(w) : EqIgnoreCase(w[j], t[k + j])

AnyEntryIn(list, t) ==
    \E k \in 1..Len(list) : IsSubstringIgnoringCase(list[k], t)

FirstEntryIn(list, t) ==
    list[CHOOSE k \in 1..Len(list) :
            /\ IsSubstringIgnoringCase(list[k], t)
            /\ \A j \in 1..(k - 1) : ~IsSubstringIgnoringCase(list[j], t)]

Dropped ==
    /\ text # <<>>
    /\ \/ AnyEntryIn(Inst.ignore_words, text)
       \/ AnyEntryIn(Inst.negative_words, text)

IsEvaluation(c) == c.op = "match_prompt"

IsDelivery(c) == c.op \in {"send_message", "forward_to"}

EvaluatorCalls == SelectSeq(calls, IsEvaluation)

DeliveryCalls == SelectSeq(calls, IsDelivery)

\* the message has text, passed the drop filters and no keyword matches it
PromptPath ==
    /\ inst # 0
    /\ text # <<>>
    /\ ~Dropped
    /\ ~AnyEntryIn(Inst.words, text)

ScanEnded == PromptPath /\ pc \notin {"words", "scan"}

\* the maximum score of a non-empty sequence of evaluations
MaxEvaluated(ev) ==
    CHOOSE m \in Scores :
        /\ \E k \in 1..Len(ev) : ev[k].res = m
        /\ \A k \in 1..Len(ev) : ev[k].res <= m

MaxOf(a, b) == IF a >= b THEN a ELSE b

\* the prompt of the earliest evaluation of ev that scored m
EarliestWith(ev, m) ==
    ev[CHOOSE k \in 1..Len(ev) :
            /\ ev[k].res = m
            /\ \A j \in 1..(k - 1) : ev[j].res # m].arg

----------------------------------------------------------------------------
(* C1: a message with text that contains, ignoring case, an entry of      *)
(* ignore_words or of negative_words causes no match_prompt call, no send  *)
(* and no forward, whatever words and prompts hold.                        *)
C1_DroppedMakesNoCall ==
    (inst # 0 /\ Dropped) => (calls = <<>> /\ ~forward /\ pc = "idle")

C1_Witness ==
    /\ inst # 0
    /\ Dropped
    /\ outcome \in {"ignore_words", "negative_words"}
    /\ AnyEntryIn(Inst.words, text)
    /\ Len(Inst.prompts) > 0

(* C2: once the keyword test is made on a message that is not dropped, if  *)
(* some entry of words is, ignoring case, a substring of the text then the *)
(* decision is forward by word, the reported word is the first such entry  *)
(* and no match_prompt call is made.                                       *)
C2_KeywordForwards ==
    (inst # 0 /\ pc # "words" /\ text # <<>> /\ ~Dropped
        /\ AnyEntryIn(Inst.words, text))
    => /\ forward
       /\ used_word = <<FirstEntryIn(Inst.words, text)>>
       /\ EvaluatorCalls = <<>>

(* C3: when no keyword matches, the k-th match_prompt call is for the k-th *)
(* prompt (configured order, each at most once) and every prompt evaluated *)
(* before the last one scored below its own threshold (early exit).        *)
C3_OrderedScanEarlyExit ==
    PromptPath =>
        /\ \A k \in 1..Len(EvaluatorCalls) : EvaluatorCalls[k].arg = k
        /\ \A k \in 1..(Len(EvaluatorCalls) - 1) :
              EvaluatorCalls[k].res < Inst.prompts[k].threshold

(* C4: when no keyword matches and the scan has ended, the decision is     *)
(* forward if and only if some evaluated prompt scored at least its own    *)
(* configured threshold, for every threshold in 0..5.                      *)
C4_ForwardIffOwnThreshold ==
    ScanEnded =>
        (forward <=>
            \E k \in 1..Len(EvaluatorCalls) :
                EvaluatorCalls[k].res
                    >= Inst.prompts[EvaluatorCalls[k].arg].threshold)

(* C5, as claimed: when the scan has ended after at least one evaluation,  *)
(* the reported score is the maximum evaluated score and the reported      *)
(* prompt and evidence are those of the earliest prompt that produced it.  *)
C5_BestIsEarliestMax ==
    LET ev == EvaluatorCalls IN
    (ScanEnded /\ Len(ev) > 0) =>
        LET m == MaxEvaluated(ev)
            best == EarliestWith(ev, m)
        IN  /\ used_score = m
            /\ used_prompt = best
            /\ used_quote = best
            /\ used_reasoning = best

(* C5, amended: when the scan has ended after at least one evaluation, the *)
(* reported score is the larger of 0 and the maximum evaluated score; if   *)
(* that maximum is greater than 0 the reported prompt and evidence are     *)
(* those of the earliest prompt that produced it (ties keep the earlier    *)
(* prompt); if no evaluated score is greater than 0 no prompt and no       *)
(* evidence are reported.                                                  *)
C5_BestIsEarliestPositiveMax ==
    LET ev == EvaluatorCalls IN
    (ScanEnded /\ Len(ev) > 0) =>
        LET m == MaxEvaluated(ev)
            best == EarliestWith(ev, m)
        IN  /\ used_score = MaxOf(0, m)
            /\ IF m > 0
               THEN /\ used_prompt = best
                    /\ used_quote = best
                    /\ used_reasoning = best
               ELSE /\ used_prompt = 0
                    /\ used_quote = 0
                    /\ used_reasoning = 0

C5_Witness ==
    LET ev == EvaluatorCalls IN
    /\ ScanEnded
    /\ Len(ev) = 2
    /\ ev[1].res = ev[2].res
    /\ ev[1].res > 0
    /\ used_prompt = 1

\* the calls a forwarded message makes when none of them raises
ExpectedFor(i, d) ==
    (IF i.no_forward_message THEN <<>> ELSE <<<<"send_message", d>>>>)
    \o <<<<"forward_to", d>>>>

ExpectedDelivery(i) ==
    (IF i.target_chat # <<>> THEN ExpectedFor(i, "target_chat") ELSE <<>>)
    \o (IF i.target_entity # "" THEN ExpectedFor(i, "target_entity")
        ELSE <<>>)

(* C6: the send and forward calls of a message are, in order, an initial   *)
(* part of: target_chat then target_entity, and for each of them the       *)
(* annotation send (none when no_forward_message is set) then the forward; *)
(* when no call raised, all of them were made.                             *)
C6_DeliveryOrder ==
    inst # 0 =>
        /\ Len(DeliveryCalls) <= Len(ExpectedDelivery(Inst))
        /\ \A k \in 1..Len(DeliveryCalls) :
              <<DeliveryCalls[k].op, DeliveryCalls[k].arg>>
                  = ExpectedDelivery(Inst)[k]
        /\ outcome = "forwarded"
              => Len(DeliveryCalls) = Len(ExpectedDelivery(Inst))

C6_Witness ==
    /\ outcome = "forwarded"
    /\ Len(DeliveryCalls) = 4

(* C7: a send or forward call that raised is the last call of its          *)
(* process_message, which has returned normally (the next message can be   *)
(* handled); no destination has more than one send attempt or more than    *)
(* one forward attempt.                                                    *)
C7_FailureAbsorbedNoRetry ==
    inst # 0 =>
        /\ \A k \in 1..Len(DeliveryCalls) :
              ~DeliveryCalls[k].res =>
                  /\ k = Len(DeliveryCalls)
                  /\ pc = "idle"
                  /\ outcome = "failed"
                  /\ next_msg < MaxMessages => ENABLED PMStart
        /\ \A d \in {"target_chat", "target_entity"},
              o \in {"send_message", "forward_to"} :
              Cardinality({k \in 1..Len(DeliveryCalls) :
                  DeliveryCalls[k].op = o /\ DeliveryCalls[k].arg = d}) <= 1

C7_Witness ==
    /\ outcome = "failed"
    /\ Len(DeliveryCalls) = 2
    /\ DeliveryCalls[2].op = "forward_to"
    /\ ~DeliveryCalls[2].res

(* C8: when an instance has two destinations and a send or forward to the  *)
(* first one raised, the message is still forwarded to the second one.     *)
C8_SecondDestinationStillServed ==
    (outcome = "failed" /\ Len(destinations) = 2
        /\ DeliveryCalls[Len(DeliveryCalls)].arg = destinations[1])
    => \E k \in 1..Len(DeliveryCalls) :
          /\ DeliveryCalls[k].op = "forward_to"
          /\ DeliveryCalls[k].arg = destinations[2]

\* the successful feedback forwards of a (chat, message) to one kind of
\* feedback destination
FeedbackForwards(key, field) ==
    {k \in 1..Len(fb_calls) :
        fb_calls[k].key = key /\ fb_calls[k].field = field /\ fb_calls[k].res}

FeedbackFields == {"true_positive_entity", "false_positive_entity"}

(* C9: when the handle_reaction calls run one after the other, a (chat,    *)
(* message) is forwarded at most once to a true-positive destination and   *)
(* at most once to a false-positive destination.                           *)
C9_AtMostOncePerPolarity ==
    \A c \in Chats, m \in MsgIds, f \in FeedbackFields :
        Cardinality(FeedbackForwards(<<c, m>>, f)) <= 1

C9_Witness ==
    /\ hr[1].result = "forwarded"
    /\ hr[2].result = "skipped"
    /\ hr[1].emojis = hr[2].emojis
    /\ Key(1) = Key(2)

(* C10: when two handle_reaction calls for identical qualifying events     *)
(* have both finished, interleaved in any way, without a failed call, the  *)
(* message has been forwarded to the feedback destination exactly once.    *)
C10_ExactlyOnceInterleaved ==
    \A g, h \in Handlers :
        (/\ g < h
         /\ hr[g].emojis = hr[h].emojis
         /\ Key(g) = Key(h)
         /\ {hr[g].result, hr[h].result} \subseteq {"forwarded", "skipped"}
         /\ "forwarded" \in {hr[g].result, hr[h].result})
        => Cardinality(FeedbackForwards(Key(g),
                DestField(IsPositive(hr[g].emojis),
                          IsNegative(hr[g].emojis)))) = 1

\* some instance forwards to chat c, and every instance that does has both
\* feedback destinations
BothFeedbackConfigured(c) ==
    /\ \E k \in 1..Len(instances) :
          /\ instances[k].target_entity # ""
          /\ EntityChat(instances[k].target_entity) = c
    /\ \A k \in 1..Len(instances) :
          (/\ instances[k].target_entity # ""
           /\ EntityChat(instances[k].target_entity) = c)
          => /\ instances[k].true_positive_entity # ""
             /\ instances[k].false_positive_entity # ""

\* no call made for the (chat, message) of h is running or has failed
Settled(h) ==
    \A g \in Handlers :
        (hr[g].pc # "new" /\ Key(g) = Key(h))
        => /\ hr[g].pc = "done"
           /\ hr[g].result \notin {"raised", "no_message"}

(* C11: when the reaction updates of a (chat, message) have been handled   *)
(* one after the other without a failed call, and both feedback            *)
(* destinations are configured, every polarity listed by a handled update  *)
(* (an update may list both) has exactly one forward to its destination:   *)
(* thumbs-up to true-positive, thumbs-down to false-positive.              *)
C11_PolaritiesIndependent ==
    \A h \in Handlers :
        (hr[h].pc = "done" /\ Settled(h) /\ BothFeedbackConfigured(hr[h].peer))
        => /\ IsPositive(hr[h].emojis)
                => Cardinality(FeedbackForwards(Key(h),
                                   "true_positive_entity")) = 1
           /\ IsNegative(hr[h].emojis)
                => Cardinality(FeedbackForwards(Key(h),
                                   "false_positive_entity")) = 1

\* the instances whose target_entity resolves to chat c
TargetsOf(c) ==
    {k \in 1..Len(instances) :
        /\ instances[k].target_entity # ""
        /\ EntityChat(instances[k].target_entity) = c}

\* the feedback destinations an update listing `emojis` may be sent to by
\* instance k
FeedbackDestinations(k, emojis) ==
    (IF emojis \cap POSITIVE_REACTIONS # {}
        THEN {instances[k].true_positive_entity} ELSE {})
    \cup (IF emojis \cap NEGATIVE_REACTIONS # {}
        THEN {instances[k].false_positive_entity} ELSE {})

(* C12: every forward_to call of handle_reaction is made by an instance    *)
(* whose target_entity resolves to the chat of the reaction, to a          *)
(* configured destination: the true_positive_entity of that instance for   *)
(* an update listing thumbs-up, its false_positive_entity for one listing  *)
(* thumbs-down; a reaction in a chat no instance targets makes no call.    *)
C12_FeedbackRouting ==
    \A n \in 1..Len(fb_calls) :
        LET c == fb_calls[n] IN
        /\ c.inst \in TargetsOf(c.key[1])
        /\ c.dest # ""
        /\ c.dest \in FeedbackDestinations(c.inst, c.emojis)

\* a thumbs-down only update forwarded by the second instance, the first
\* one targeting another chat
C12_Witness ==
    /\ Len(fb_calls) > 0
    /\ fb_calls[1].inst = 2
    /\ fb_calls[1].emojis = {"thumbs_down"}
    /\ fb_calls[1].res
    /\ instances[1].target_entity # ""
    /\ instances[1].false_positive_entity # ""

\* the update of h lists neither thumbs-up nor thumbs-down
Unrecognized(h) ==
    hr[h].emojis \cap (POSITIVE_REACTIONS \cup NEGATIVE_REACTIONS) = {}

\* the chat of h is the target of some instance and no such instance has a
\* feedback destination
NoFeedbackDestination(h) ==
    /\ TargetsOf(hr[h].peer) # {}
    /\ \A k \in TargetsOf(hr[h].peer) :
          /\ instances[k].true_positive_entity = ""
          /\ instances[k].false_positive_entity = ""

(* C13: no step of a handle_reaction call whose update lists no thumbs-up  *)
(* and no thumbs-down, or whose chat is targeted only by instances with    *)
(* neither a true-positive nor a false-positive destination, makes a       *)
(* forward_to call or changes forwarded_positive or forwarded_negative.    *)
C13_NoForwardNoMark ==
    [][\A h \in Handlers :
          (hr'[h] # hr[h] /\ (Unrecognized(h)' \/ NoFeedbackDestination(h)'))
          => /\ fb_calls' = fb_calls
             /\ forwarded_positive' = forwarded_positive
             /\ forwarded_negative' = forwarded_negative]_vars

\* an ignored update, and a thumbs-up looked up against its target instance
\* and left without forward
C13_Witness ==
    /\ hr[1].result = "ignored"
    /\ Unrecognized(1)
    /\ hr[2].result = "no_forward"
    /\ ~Unrecognized(2)
    /\ NoFeedbackDestination(2)
    /\ fb_calls = <<>>

(* C14: no match_prompt call ends by an exception, whatever the Evaluator  *)
(* produces (exception, missing structured result, any score) and whether  *)
(* or not the prompt has a text and the API key is configured; hence no    *)
(* process_message is left before the end of its prompt list.              *)
C14_MatchPromptNeverRaises ==
    /\ outcome # "raised"
    /\ \A k \in 1..Len(calls) : calls[k].op # "match_prompt_raised"

(* C15: every score returned by match_prompt, and hence the score          *)
(* compared with the threshold and reported with a forward, is within      *)
(* [0,5], whatever integer the Evaluator returns.                          *)
C15_ScoreWithinScale ==
    /\ \A k \in 1..Len(EvaluatorCalls) :
          EvaluatorCalls[k].res \in MinScore..MaxScore
    /\ used_score \in MinScore..MaxScore

(* C16: a refresh made by the rescan loop never removes a chat id from     *)
(* instance.chat_ids, whatever the folder listing and the peer lookups     *)
(* produce.                                                                *)
C16_RefreshMonotonic ==
    [][\A k \in 1..Len(instances) :
          ~FirstRun(k)
          => instances[k].chat_ids \subseteq instances'[k].chat_ids]_vars

\* the id the events of a chat carry, for an id in either representation
CanonicalId(cid) == IF cid <= 0 THEN cid ELSE get_peer_id(PeerOfId(cid))

(* C17: the chat_ids a refresh stores are exactly the canonical ids of the *)
(* ids gathered from the folders, the previous chat_ids and the resolved   *)
(* entities.                                                               *)
C17_StoresCanonicalUnion ==
    [][\A k \in 1..Len(instances) :
          (rs[k].pc = "normalize" /\ rs'[k].pc # "normalize")
          => instances'[k].chat_ids
                = {CanonicalId(cid) : cid \in rs[k].new_ids}]_vars

(* C18: a failure of the folder lookup never ends the update of an         *)
(* instance: the update goes on to its entities, and main to the updates   *)
(* of the other instances.                                                 *)
C18_FolderFailureSkipped ==
    /\ \A k \in 1..Len(rs) : rs[k].failed_at # "folders"
    /\ (\E k \in 1..Len(rs) : rs[k].failed_at # "none") => Alive

\* the rescan loop of instance k is waiting for its next cycle
Sleeping(k) == k <= Len(rs) /\ rs[k].pc = "sleep"

(* C19: a rescan loop that has started keeps running: it comes back to its *)
(* sleep after every refresh, whatever failed in it.                       *)
C19_RescanForever ==
    \A k \in 1..MaxInstances : [](Sleeping(k) => []<>Sleeping(k))

(* C20: once a rescan cycle that began after the last change of the        *)
(* configuration file has completed, the running instance has the words    *)
(* and the folders of the file.                                            *)
C20_ReloadTakesEffect ==
    \A k \in 1..Len(rs) :
        (rs[k].pc = "sleep" /\ rs[k].loaded)
        => FileEntry(instances[k]) = config_file.instances[k]

----------------------------------------------------------------------------
(* vocabulary of the claims on the StatsStore *)

\* the scope of the instance called `name`, empty when it has no entry
InstScope(data, name) ==
    LET k == InstIndexFrom(data.instances, name, 1) IN
    IF k = 0 THEN EmptyStats ELSE data.instances[k].stats

\* the scope of one day of the instance called `name`
DayScope(data, name, day) ==
    LET k == InstIndexFrom(data.instances, name, 1) IN
    IF k = 0 \/ day \notin DOMAIN data.instances[k].days THEN EmptyStats
    ELSE data.instances[k].days[day]

\* the three scopes a message of instance `name` on `day` is counted in
ScopesOf(data, name, day) ==
    <<data.stats, InstScope(data, name), DayScope(data, name, day)>>

(* C23: once process_message has forwarded a message, the forwarded_total  *)
(* of its instance has counted it, together with forwarded_words when the  *)
(* decision was by keyword and forwarded_prompt when it was by prompt.     *)
C23_ForwardedIsCounted ==
    (inst # 0 /\ outcome = "forwarded")
    => LET s == InstScope(stats, InstanceName(inst)) IN
        /\ s.forwarded_total >= 1
        /\ (Truthy(used_word) => s.forwarded_words >= 1)
        /\ (~Truthy(used_word) => s.forwarded_prompt >= 1)

(* C28: a message without text adds exactly one to the total of the global, *)
(* instance and day scopes and to nothing else, and until the next message  *)
(* no match_prompt call, no send and no forward is made for it and the      *)
(* counters stay as they are, whatever the instance's lists and prompts.    *)
C28_NoTextCountedOnly ==
    [][/\ (next_msg' # next_msg /\ text' = <<>>)
          => LET n == InstanceName(inst') IN
             /\ calls' = <<>>
             /\ \A j \in 1..3 :
                 ScopesOf(stats', n, today)[j] =
                    [ScopesOf(stats, n, today)[j] EXCEPT !.total = @ + 1]
       /\ (next_msg' = next_msg /\ inst # 0 /\ text = <<>>)
          => /\ stats' = stats
             /\ calls' = <<>>
             /\ ~forward'
             /\ pc' = "idle"]_vars

C28_Witness ==
    /\ inst # 0
    /\ text = <<>>
    /\ outcome = "not_forwarded"
    /\ Len(Inst.words) > 0
    /\ Len(Inst.prompts) > 0
    /\ next_msg = 2
    /\ InstScope(stats, InstanceName(inst)).total = 2

(* C29: the step that drops a message by ignore_words or negative_words     *)
(* leaves the whole StatsTracker data as it was: no total of the global,    *)
(* instance or day scope is incremented for it.                             *)
C29_DroppedNotCounted ==
    [][(next_msg' # next_msg /\ Dropped') => stats' = stats]_vars

C29_Witness ==
    /\ inst # 0
    /\ Dropped
    /\ outcome = "negative_words"
    /\ next_msg = 2
    /\ stats.stats.total = 1
    /\ DayScope(stats, InstanceName(inst), today).total = 1

\* the four counters of a scope
CountersOf(s) ==
    [total |-> s.total, forwarded_total |-> s.forwarded_total,
     forwarded_words |-> s.forwarded_words,
     forwarded_prompt |-> s.forwarded_prompt]

\* what the claim expects of a scope the increment calls S fell in
Tally(S) ==
    [total |-> Cardinality(S),
     forwarded_total |-> Cardinality({k \in S : st_calls[k].forwarded}),
     forwarded_words |->
        Cardinality({k \in S : st_calls[k].forwarded /\ st_calls[k].used_word}),
     forwarded_prompt |->
        Cardinality({k \in S : st_calls[k].forwarded
                                /\ st_calls[k].used_prompt})]

\* every scope of the tracker: global, per instance, per instance and day
AllScopes ==
    {stats.stats}
    \cup {stats.instances[k].stats : k \in 1..Len(stats.instances)}
    \cup UNION {{stats.instances[k].days[d] :
                    d \in DOMAIN stats.instances[k].days} :
                k \in 1..Len(stats.instances)}

\* some increment call so far had forwarded, used_word and used_prompt
SomeCallWithBothFlags ==
    \E k \in 1..Len(st_calls) :
        st_calls[k].forwarded /\ st_calls[k].used_word
            /\ st_calls[k].used_prompt

(* C24: in a tracker started empty, the four counters of the global scope,  *)
(* of each instance scope and of each instance-and-day scope equal the      *)
(* numbers of increment calls that fell in the scope: all of them, those    *)
(* with forwarded, those with forwarded and used_word, those with forwarded *)
(* and used_prompt.                                                         *)
C24_CountersEqualCalls ==
    stats0 = EmptyTracker
    => LET all == 1..Len(st_calls) IN
       /\ CountersOf(stats.stats) = Tally(all)
       /\ \A n \in StoreNames :
            /\ CountersOf(InstScope(stats, n)) =
                  Tally({k \in all : st_calls[k].name = n})
            /\ \A d \in Days :
                  CountersOf(DayScope(stats, n, d)) =
                     Tally({k \in all : st_calls[k].name = n
                                          /\ st_calls[k].day = d})

C24_Witness ==
    /\ stats0 = EmptyTracker
    /\ Len(st_calls) = 2
    /\ st_calls[1].name = st_calls[2].name
    /\ st_calls[1].day # st_calls[2].day
    /\ stats.stats.forwarded_words = 1
    /\ stats.stats.forwarded_total = 1
    /\ stats.stats.total = 2

(* C25 as stated: in a tracker started empty every instance has            *)
(* forwarded_total <= total and forwarded_words + forwarded_prompt <=      *)
(* forwarded_total, whatever flags the increment calls carried.            *)
C25_SumWithinForwarded ==
    stats0 = EmptyTracker
    => \A k \in 1..Len(stats.instances) :
         LET s == stats.instances[k].stats IN
         /\ s.forwarded_total <= s.total
         /\ s.forwarded_words + s.forwarded_prompt <= s.forwarded_total

(* C25: in a tracker started empty every scope has forwarded_total <=      *)
(* total, forwarded_words <= forwarded_total and forwarded_prompt <=       *)
(* forwarded_total; forwarded_words + forwarded_prompt <= forwarded_total  *)
(* holds as long as no increment call carried forwarded, used_word and     *)
(* used_prompt together.                                                   *)
C25_EachWithinForwarded ==
    stats0 = EmptyTracker
    => \A s \in AllScopes :
         /\ s.forwarded_total <= s.total
         /\ s.forwarded_words <= s.forwarded_total
         /\ s.forwarded_prompt <= s.forwarded_total
         /\ (~SomeCallWithBothFlags
                => s.forwarded_words + s.forwarded_prompt <= s.forwarded_total)

C25_Witness ==
    /\ stats0 = EmptyTracker
    /\ SomeCallWithBothFlags
    /\ Len(st_calls) = 2
    /\ stats.stats.total = 2
    /\ stats.stats.forwarded_total = 1
    /\ stats.stats.forwarded_words = 1
    /\ stats.stats.forwarded_prompt = 1

(* C26: whenever a store has nothing left to flush - after each flush, and *)
(* on construction - a store constructed from the file holds the same data: *)
(* every counter of every scope of the StatsTracker and every (chat,        *)
(* message) -> trace id entry of the TraceStore.                            *)
C26_FlushReloadIdentity ==
    /\ ~dirty => LoadStats(stats_file) = stats
    /\ ~trace_dirty => LoadTraces(trace_file) = traces

C26_Witness ==
    /\ ~dirty
    /\ ~trace_dirty
    /\ Len(st_calls) = 1
    /\ Len(trace_calls) = 1
    /\ trace_calls[1].chat_id.t = "int"
    /\ trace_calls[1].trace_id # ""
    /\ Len(stats_file) = 1
    /\ stats_file[1].format = "new"
    /\ Len(trace_file) = 1
    /\ trace_file[1].format = "nested"
    /\ ~flush_due

\* the set calls with a trace id made for the pair (chat, message)
SetsOf(c, m) ==
    {k \in 1..Len(trace_calls) :
        /\ Str(trace_calls[k].chat_id) = Str(c)
        /\ Str(trace_calls[k].message_id) = Str(m)
        /\ trace_calls[k].trace_id # ""}

LastOf(S) == CHOOSE k \in S : \A j \in S : j <= k

(* C27: get(chat, message) returns the trace id of the most recent set for *)
(* the pair that had one; for a pair without such a set it returns what    *)
(* the store started with, None in a store started empty; a set without    *)
(* trace id therefore changes no answer.                                   *)
C27_LastWriteWins ==
    \A c \in Ids, m \in MessageIds :
        LET S == SetsOf(c, m) IN
        /\ S # {} => trace_get(traces, c, m) = trace_calls[LastOf(S)].trace_id
        /\ S = {} => trace_get(traces, c, m) = trace_get(traces0, c, m)
        /\ (S = {} /\ traces0 = EmptyDict) => trace_get(traces, c, m) = ""

C27_Witness ==
    /\ Len(trace_calls) = 2
    /\ trace_calls[1].trace_id = "t1"
    /\ trace_calls[2].trace_id = "t2"
    /\ trace_calls[1].chat_id.t # trace_calls[2].chat_id.t
    /\ Str(trace_calls[1].chat_id) = Str(trace_calls[2].chat_id)
    /\ trace_get(traces, trace_calls[1].chat_id, trace_calls[1].message_id)
         = "t2"

----------------------------------------------------------------------------
(* vocabulary of the claims on main and its handler *)

\* update_instance_chat_ids has returned once for every instance
AllRefreshedOnce == \A k \in 1..Len(rs) : rs[k].refreshed

\* some message or reaction has been handed to its handler
SomeUpdateHandled == events # <<>> \/ \E h \in Handlers : hr[h].pc # "new"

\* the forwards made, as positions of hcalls
ForwardsMade == {k \in 1..Len(hcalls) : hcalls[k].op = "forward_to"}

\* the sender of the message is on a block list of the configuration
SenderBlocked(e) ==
    \/ e.user_id \in app_config.ignore_user_ids
    \/ \E k \in 1..Len(app_config.ignore_usernames) :
         LET u == app_config.ignore_usernames[k] IN
         /\ Len(u) = Len(e.username)
         /\ \A j \in 1..Len(u) : EqIgnoreCase(u[j], e.username[j])

(* C21: no message and no reaction is handed to a handler before           *)
(* update_instance_chat_ids has returned for every instance.               *)
C21_HandledAfterAllRefreshed == SomeUpdateHandled => AllRefreshedOnce

C21_Witness ==
    /\ Len(instances) = 2
    /\ Len(events) >= 1
    /\ \E h \in Handlers : hr[h].pc # "new"
    /\ rs[1].pc = "entities"

(* C22: when two messages of one chat are forwarded by the same instance,  *)
(* every forward of the one that arrived first is made before every        *)
(* forward of the other.                                                   *)
C22_ArrivalOrderKept ==
    \A j \in ForwardsMade, k \in ForwardsMade :
        (/\ j < k
         /\ hcalls[j].inst = hcalls[k].inst
         /\ events[hcalls[j].msg].chat = events[hcalls[k].msg].chat)
        => hcalls[j].msg <= hcalls[k].msg

(* C30: the step the handler takes for a message of a blocked sender ends  *)
(* the handling of the message and changes no counter, and no step ever    *)
(* makes a match_prompt call, a send or a forward for such a message.      *)
C30_BlockedSenderUntouched ==
    [][\A t \in 1..Len(events) :
        SenderBlocked(events[t])
        => /\ events'[t] # events[t]
                => /\ events'[t].pc = "done"
                   /\ events'[t].i = 0
                   /\ stats' = stats
           /\ \A k \in 1..Len(hcalls') : hcalls'[k].msg # t]_vars

C30_Witness ==
    \E t \in 1..Len(events) :
        /\ events[t].result = "ignored"
        /\ events[t].user_id \notin app_config.ignore_user_ids
        /\ events[t].username = <<"A">>
        /\ events[t].text = <<"a">>
        /\ \E i \in 1..Len(instances) : events[t].chat \in instances[i].chat_ids
        /\ \E u \in 1..Len(events) : u # t /\ events[u].result = "ignored"
                                        /\ events[u].user_id = 1

\* the first message waits for the Evaluator while the second, matched by
\* a keyword, is forwarded; then the first is forwarded too
SlowFirstOvertaken ==
    /\ Len(events) = 2
    /\ events[1].chat = events[2].chat
    /\ events[1].text = <<"b">>
    /\ events[2].text = <<"a">>
    /\ \E j \in ForwardsMade, k \in ForwardsMade :
         /\ j < k
         /\ hcalls[j].msg = 2 /\ hcalls[j].res
         /\ hcalls[k].msg = 1 /\ hcalls[k].res
         /\ hcalls[j].inst = hcalls[k].inst

----------------------------------------------------------------------------
(* Muting *)

\* the request task k made last before its j-th request of the log
PreviousOf(j) ==
    LET S == {i \in 1..(j - 1) : mute_log[i].task = mute_log[j].task}
    IN IF S = {} THEN 0 ELSE CHOOSE i \in S : \A m \in S : m <= i

\* the list request that began the pass the j-th request belongs to
PassOf(j) ==
    LET S == {i \in 1..j : /\ mute_log[i].task = mute_log[j].task
                           /\ mute_log[i].op = "list"}
    IN IF S = {} THEN 0 ELSE CHOOSE i \in S : \A m \in S : m <= i

Updates == {j \in 1..Len(mute_log) : mute_log[j].op = "update"}

\* C31: muting is idempotent.  Every update-notify-settings request of a
\* pass comes right after the pass read the settings of that peer and found
\* them other than muted forever, so a peer read as muted forever gets no
\* request; and a pass begun when every peer of the folders was muted
\* forever makes no update request at all.
C31_MuteIdempotent ==
    \A j \in Updates :
        /\ PreviousOf(j) # 0
        /\ LET g == mute_log[PreviousOf(j)] IN
              /\ g.op = "get"
              /\ g.ok
              /\ g.peers = mute_log[j].peers
              /\ ~(g.peers \subseteq g.muted)
        /\ PassOf(j) # 0
        /\ ~(mute_log[PassOf(j)].peers \subseteq mute_log[PassOf(j)].muted)

\* a first pass updated a peer; a later pass found every peer of the folder
\* muted forever, read the settings of one and ended
C31_Witness ==
    /\ rs[1].pc = "sleep"
    /\ \E u, l, g \in 1..Len(mute_log) :
          /\ u < l /\ l < g
          /\ mute_log[u].op = "update" /\ mute_log[u].ok
          /\ mute_log[l].op = "list" /\ mute_log[l].ok
          /\ mute_log[l].peers # {}
          /\ mute_log[l].peers \subseteq mute_log[l].muted
          /\ mute_log[g].op = "get" /\ mute_log[g].ok
          /\ mute_log[g].peers \subseteq mute_log[g].muted

\* the mute pass of the task has run and is over
PassOver(k) ==
    /\ rs[k].pc \in {"sleep", "dead"}
    /\ mute_log # <<>>
    /\ mute_log[Len(mute_log)].task = k

\* C32: when a refresh with folder_mute ends, every peer of the folders
\* listed, of whatever kind, was muted forever already or had an update
\* request made for it, unless a request about that very peer failed.
C32_EveryFolderPeerSilenced ==
    \A k \in 1..Len(rs) :
        PassOver(k) /\ mute_log[PassOf(Len(mute_log))].ok =>
            LET l == PassOf(Len(mute_log)) IN
            \A p \in mute_log[l].peers :
                \/ p \in mute_log[l].muted
                \/ \E j \in (l + 1)..Len(mute_log) :
                      /\ p \in mute_log[j].peers
                      /\ mute_log[j].op = "update" \/ ~mute_log[j].ok
----------------------------------------------------------------------------
(* Conversion of the stats file *)

\* the value under a key of a structure, nothing counting as zero
Field(d, key) == IF key \in DOMAIN d THEN d[key] ELSE 0

InstancesIn(d) == IF "instances" \in DOMAIN d THEN d.instances ELSE <<>>

DaysIn(i) == IF "days" \in DOMAIN i THEN i.days ELSE EmptyDict

DayTotal(v) == IF "bare" \in DOMAIN v THEN v.bare ELSE v.total

\* every day of the old data is a bare total
IsFlat(d) ==
    \A k \in 1..Len(InstancesIn(d)) :
        \A day \in DOMAIN DaysIn(InstancesIn(d)[k]) :
            "bare" \in DOMAIN DaysIn(InstancesIn(d)[k])[day]

NothingForwarded(st) ==
    /\ st.forwarded_total = 0
    /\ st.forwarded_words = 0
    /\ st.forwarded_prompt = 0

\* the tracker was constructed on a file of the old format
LegacyLoaded == stats_file # <<>> /\ stats_file[1].format = "old"

\* C33: a tracker constructed on legacy data holds the nested shape with
\* the same global total and tokens, the same total and tokens per instance
\* and the same total per day, and with every forwarded counter zero when
\* the data was flat; converting nested data returns it unchanged, and
\* converting twice is converting once.
C33_LegacyConverted ==
    /\ convert(stats) = stats
    /\ convert(stats0) = stats0
    /\ LegacyLoaded =>
        LET old == stats_file[1].value IN
        /\ convert(convert(old)) = convert(old)
        /\ DOMAIN stats0 = {"stats", "instances"}
        /\ stats0.stats.total = Field(old, "total")
        /\ stats0.stats.tokens = Field(old, "tokens")
        /\ IsFlat(old) => NothingForwarded(stats0.stats)
        /\ Len(stats0.instances) = Len(InstancesIn(old))
        /\ \A k \in 1..Len(InstancesIn(old)) :
            LET i == InstancesIn(old)[k]
                n == stats0.instances[k]
            IN
            /\ n.stats.total = Field(i, "total")
            /\ n.stats.tokens = Field(i, "tokens")
            /\ IsFlat(old) => NothingForwarded(n.stats)
            /\ DOMAIN n.days = DOMAIN DaysIn(i)
            /\ \A day \in DOMAIN n.days :
                /\ n.days[day].total = DayTotal(DaysIn(i)[day])
                /\ IsFlat(old) => NothingForwarded(n.days[day])

\* a process started again on flat legacy data with an instance of two
\* days, and tokens counted since
C33_Witness ==
    /\ LegacyLoaded
    /\ IsFlat(stats_file[1].value)
    /\ Field(stats_file[1].value, "total") = 3
    /\ Len(stats0.instances) = 1
    /\ DOMAIN stats0.instances[1].days = {"d1", "d2"}
    /\ stats0.instances[1].days["d2"].total = 2
    /\ stats.stats.tokens > stats0.stats.tokens
----------------------------------------------------------------------------
(* Safe names *)

\* the characters of [A-Za-z0-9_.-]
AllowedChars == {"a", "-", "_", "."}

\* the normalization the claim describes
ReferenceName(name) ==
    LET t == Strip(name) IN
    IF \A k \in 1..Len(t) : t[k] \notin AllowedChars THEN ChatHistory
    ELSE [k \in 1..Len(t) |-> IF t[k] \in AllowedChars THEN t[k] ELSE "_"]

\* C34: get_safe_name agrees with the reference normalization: every
\* character of the trimmed input outside [A-Za-z0-9_.-] becomes "_", so
\* the result holds characters of that set only, and an empty or
\* all-invalid input gives chat_history.
C34_SafeNameIsReference ==
    \A j \in 1..Len(safe_names) :
        /\ safe_names[j].safe = ReferenceName(safe_names[j].name)
        /\ \A k \in 1..Len(safe_names[j].safe) :
              safe_names[j].safe[k] \in AllowedChars \cup
                  {ChatHistory[m] : m \in 1..Len(ChatHistory)}
----------------------------------------------------------------------------
(* Feedback forwards: marking, one forward per event, target forms *)

ReactionKeys == {<<c, m>> : c \in Chats, m \in MsgIds}

\* the invocation of g ended in a failed fetch or a raised call
FailedInvocation(g) ==
    hr[g].pc = "done" /\ hr[g].result \in {"raised", "no_message"}

\* C35: a key is in the dedup set of a polarity only when a forward of that
\* polarity for it has returned; an invocation that could not fetch the
\* message or whose call raised leaves no mark, so a later update for the
\* same message listing the same emojis is not skipped as already forwarded.
C35_MarkOnlyAfterForward ==
    /\ \A key \in ReactionKeys :
        /\ key \in forwarded_positive
              <=> FeedbackForwards(key, "true_positive_entity") # {}
        /\ key \in forwarded_negative
              <=> FeedbackForwards(key, "false_positive_entity") # {}
    /\ \A g, h \in Handlers :
        (/\ g < h
         /\ FailedInvocation(g)
         /\ hr[h].pc = "done"
         /\ Key(h) = Key(g)
         /\ hr[h].emojis = hr[g].emojis
         /\ \A f \in FeedbackFields : FeedbackForwards(Key(g), f) = {})
        => hr[h].result # "skipped"

\* the forward of a first update raised, the forward of a second update
\* for the same message returned
C35_Witness ==
    /\ Len(fb_calls) = 2
    /\ ~fb_calls[1].res
    /\ fb_calls[2].res
    /\ fb_calls[2].key = fb_calls[1].key
    /\ fb_calls[2].emojis = fb_calls[1].emojis
    /\ forwarded_positive \cup forwarded_negative = {fb_calls[2].key}

\* the instances that target chat c by entity and have the destination of
\* the polarity handle_reaction takes for `emojis`
Receivers(c, emojis) ==
    {k \in TargetsOf(c) :
        IF emojis \cap POSITIVE_REACTIONS # {}
        THEN instances[k].true_positive_entity # ""
        ELSE instances[k].false_positive_entity # ""}

IsForwardingTarget(k, c) ==
    \/ instances[k].target_chat = <<c>>
    \/ k \in TargetsOf(c)

\* C37: a thumbs-up or thumbs-down on a message of a chat that is the
\* forwarding target of an instance with the feedback destination of that
\* polarity is forwarded, whether the target is a target_chat or a
\* target_entity - unless the message was forwarded before or a call failed.
C37_EitherTargetFormServed ==
    \A h \in Handlers :
        (/\ hr[h].pc = "done"
         /\ hr[h].result \notin {"raised", "no_message", "skipped"}
         /\ IsPositive(hr[h].emojis) \/ IsNegative(hr[h].emojis)
         /\ \E k \in 1..Len(instances) :
               /\ IsForwardingTarget(k, hr[h].peer)
               /\ DestOf(instances[k], IsPositive(hr[h].emojis),
                         IsNegative(hr[h].emojis)) # "")
        => hr[h].result = "forwarded"

\* the instances whose process_message has taken the message of task t
\* past its drop tests: none before the handler ran its sender tests, all
\* of them once the loop is over, those up to the current one otherwise
ReachedBy(t) ==
    LET e == events[t] IN
    IF e.pc = "handler" \/ e.result = "ignored" THEN {}
    ELSE IF e.pc = "done" /\ e.result # "raised" THEN 1..Len(instances)
    ELSE 1..e.i

\* the message is watched by instance i and no ignore or negative word of
\* the instance occurs in its text
NotDroppedBy(i, e) ==
    /\ e.chat \in instances[i].chat_ids
    /\ \/ e.text = <<>>
       \/ /\ ~AnyEntryIn(instances[i].ignore_words, e.text)
          /\ ~AnyEntryIn(instances[i].negative_words, e.text)

PairsProcessed(i) ==
    {t \in 1..Len(events) : i \in ReachedBy(t) /\ NotDroppedBy(i, events[t])}

RECURSIVE TokensCredited(_, _)
\* the sum of the amounts the first n calls reported for instance i
TokensCredited(i, n) ==
    IF n = 0 THEN 0
    ELSE TokensCredited(i, n - 1)
         + (IF hcalls[n].inst = i THEN hcalls[n].tokens ELSE 0)

\* every handler task has finished
AllFinished == \A t \in 1..Len(events) : events[t].pc = "done"

(* C38: whatever the interleaving of the handler tasks at their awaits,    *)
(* the total of an instance is the number of (instance, message) pairs     *)
(* processed and not dropped, and its token counters are the sum of the    *)
(* amounts the match_prompt calls reported for it: at every moment, and so *)
(* once all handlers have finished.                                        *)
C38_NoCounterUpdateLost ==
    \A i \in 1..Len(instances) :
        LET s == InstScope(stats, InstanceName(i)) IN
        /\ s.total = Cardinality(PairsProcessed(i))
        /\ s.tokens = TokensCredited(i, Len(hcalls))

\* two handlers interleaved on one instance: the second message was
\* evaluated first, both evaluations reported tokens, both have finished
C38_Witness ==
    /\ Len(events) = 2
    /\ AllFinished
    /\ \E j \in 1..Len(hcalls), k \in 1..Len(hcalls) :
        /\ j < k
        /\ hcalls[j].msg = 2 /\ hcalls[k].msg = 1
        /\ hcalls[j].inst = hcalls[k].inst
        /\ hcalls[j].tokens = 1 /\ hcalls[k].tokens = 1
        /\ InstScope(stats, InstanceName(hcalls[j].inst)).tokens = 2
        /\ InstScope(stats, InstanceName(hcalls[j].inst)).total = 2


\* the counters increment maintains
CountedFields ==
    {"total", "forwarded_total", "forwarded_words", "forwarded_prompt"}

RECURSIVE SumOverInstances(_, _, _)
\* the sum of field f over the scopes of the first n instance entries
SumOverInstances(data, f, n) ==
    IF n = 0 THEN 0
    ELSE SumOverInstances(data, f, n - 1) + data.instances[n].stats[f]

RECURSIVE SumOverDays(_, _, _)
\* the sum of field f over the scopes of the days in D
SumOverDays(days, f, D) ==
    IF D = {} THEN 0
    ELSE LET d == CHOOSE x \in D : TRUE
         IN  days[d][f] + SumOverDays(days, f, D \ {d})

(* C39: in every state of a tracker that started empty, the global total   *)
(* is the sum of the totals of the instances and the total of an instance  *)
(* is the sum of the totals of its days, and likewise for forwarded_total, *)
(* forwarded_words and forwarded_prompt.                                   *)
C39_ScopesAddUp ==
    stats0 = EmptyTracker =>
        \A f \in CountedFields :
            /\ stats.stats[f]
                  = SumOverInstances(stats, f, Len(stats.instances))
            /\ \A k \in 1..Len(stats.instances) :
                LET i == stats.instances[k] IN
                i.stats[f] = SumOverDays(i.days, f, DOMAIN i.days)

\* a tracker started empty has counted a forward by keyword on each of two
\* days for one instance
C39_Witness ==
    /\ stats0 = EmptyTracker
    /\ Len(stats.instances) = 1
    /\ stats.stats.forwarded_words = 2
    /\ stats.instances[1].stats.forwarded_words = 2
    /\ DOMAIN stats.instances[1].days = Days
    /\ \A d \in Days : stats.instances[1].days[d].forwarded_words = 1


\* a flush has written the stats file: the files a start can find are
\* absent, of the old format or unreadable
StatsWritten == Len(stats_file) = 1 /\ stats_file[1].format = "new"

\* a flush has written the trace id file
TracesWritten == Len(trace_file) = 1 /\ trace_file[1].format = "nested"

\* the step holds a call that changes the state of the StatsTracker
StatsMutated == st_calls' # st_calls \/ stats' # stats

\* the step holds a set call with a trace id
TraceMutated ==
    /\ trace_calls' # trace_calls
    /\ trace_calls'[Len(trace_calls')].trace_id # ""

=============================================================================
